---------------------------- MODULE Spec2Model ----------------------------
(***************************************************************************)
(* Hybrid ranking (scripts/rank_all_content.py) and diversity selection    *)
(* (scripts/postprocess_clusters.py) of the tech-econ repository.          *)
(*                                                                         *)
(* Numbers.  The code computes on floats; the model computes on exact      *)
(* integers and rationals:                                                 *)
(*   - engagement scores are carried multiplied by 10, so that every       *)
(*     signal weight is an integer (CLICK_WEIGHT 5.0 is 50, ...);          *)
(*   - dwell time is counted in tenths of a minute (6000 ms);              *)
(*   - a normalised score is a rational <<num, den>>, den > 0, reduced.    *)
(* Floating-point rounding is therefore outside the model.                 *)
(***************************************************************************)
EXTENDS Integers, Sequences, FiniteSets, TLC

VARIABLES
  \* ---- rank_all_content.py main() ----
  pc,                     \* position in main()
  items,                  \* load_all_content(): sequence of catalog items
  engagement_data,        \* fetch_engagement_data(): record of row lists
  any_interaction_names,  \* main(): names with a "real interaction"
  raw_scores,             \* build_engagement_scores(): name -> score*10
  item_signals,           \* build_engagement_scores(): name -> signal record
  model,                  \* train_regression_model(): None or the fitted model
  regression_scores,      \* train_regression_model(): name -> prediction; the
                          \* empty dict stands for None (both are falsy)
  combined_scores,        \* main(): name -> rational score
  scoring_method,         \* main(): 'hybrid_bert' or 'weighted'
  all_scores,             \* main(): name -> [score, cold_start, signals]
  \* ---- postprocess_clusters.py select_diverse_items() / mmr_select() ----
  sel_pc,                 \* "input", "ready", "selected", "mmr_done" or "rerun"
  cluster_item_ids,       \* the cluster's item ids, in dict order
  centrality,             \* id -> cosine similarity to the centroid, rescaled
                          \* to [0, 1], in tenths
  max_items,              \* max_items (select_diverse_items), num_select (mmr_select)
  lambda_param,           \* lambda_param of mmr_select, in tenths
  selection,              \* what select_diverse_items returns, with its locals
  mmr_out,                \* what mmr_select returns
  rerun,                  \* what select_diverse_items returns in a second run
  \* ---- build_als_model.py main() ----
  als,                    \* [status, items, trained, written] of the ALS run
  \* ---- the artifacts on disk and the script runs that write them ----
  files,                  \* [clusters, rankings, homepage]: content of each file
  run,                    \* [rank, post]: position of each script's run,
                          \* loaded: what load_clusters() read, crashes so far
  \* ---- postprocess_clusters.py main(), steps 2, 3 and 5 ----
  pp,                     \* [pc, clusters, item_to_cluster, ...]: main()'s locals
  \* ---- rank_all_content.py load_all_content() ----
  ld,                     \* [pc, files, items]: the source files and the catalog
  \* ---- build_als_model.py main(), sessions and matrix ----
  am,                     \* [pc, ...]: main()'s locals
  \* ---- generate_narrative_carousels.py ----
  nc,                     \* [pc, ...]: inputs and results of its functions
  \* ---- rank_all_content.py main(), step 8 and the homepage list ----
  out                     \* [pc, items, all_scores, rankings, ...]

rankVars == <<pc, items, engagement_data, any_interaction_names, raw_scores,
              item_signals, model, regression_scores, combined_scores,
              scoring_method, all_scores>>

selVars == <<sel_pc, cluster_item_ids, centrality, max_items, lambda_param,
             selection, mmr_out>>

extVars == <<pp, ld, am, nc, out>>

auxVars == <<rerun, als, files, run, extVars>>

vars == <<rankVars, selVars, auxVars>>

None == "None"

---------------------------------------------------------------------------
(* Generic helpers: dicts are TLA+ functions whose DOMAIN is the key set.  *)

EmptyDict == <<>>

\* dict.get(k, default)
Get(d, k, default) == IF k \in DOMAIN d THEN d[k] ELSE default

Max2(a, b) == IF a >= b THEN a ELSE b

RECURSIVE GCD(_, _)
GCD(a, b) == IF b = 0 THEN a ELSE GCD(b, a % b)

Abs(x) == IF x < 0 THEN -x ELSE x

\* Rationals <<n, d>> with d > 0, reduced.
Rat(n, d) ==
  LET g == GCD(Abs(n), d)
  IN  IF n = 0 THEN <<0, 1>> ELSE <<n \div g, d \div g>>

RSub(a, b) == Rat(a[1] * b[2] - b[1] * a[2], a[2] * b[2])
RMul(a, b) == Rat(a[1] * b[1], a[2] * b[2])
\* a / b for b > 0
RDiv(a, b) == Rat(a[1] * b[2], a[2] * b[1])
RLe(a, b)  == a[1] * b[2] <= b[1] * a[2]
RLt(a, b)  == a[1] * b[2] <  b[1] * a[2]

RZero == <<0, 1>>
ROne  == <<1, 1>>
RHalf == <<1, 2>>

Range(f) == {f[k] : k \in DOMAIN f}

RMin(S) == CHOOSE x \in S : \A y \in S : RLe(x, y)
RMax(S) == CHOOSE x \in S : \A y \in S : RLe(y, x)


---------------------------------------------------------------------------
(* rank_all_content.py: signal weights, multiplied by 10.                  *)

CLICK_WEIGHT        == 50
IMPRESSION_WEIGHT   == 5
VIEWABLE_WEIGHT     == 1
DWELL_WEIGHT        == 10
SCROLL_90_WEIGHT    == 20
SCROLL_75_WEIGHT    == 10
SCROLL_50_WEIGHT    == 5
SEARCH_CLICK_WEIGHT == 30
RAGE_CLICK_WEIGHT   == -20
QUICK_BOUNCE_WEIGHT == -10
DEEP_SESSION_WEIGHT == 15
COVIEW_WEIGHT       == 1
COCLICK_WEIGHT      == 3

\* train_regression_model: "if n_with_score < 5" skips training
MIN_TRAIN_SAMPLES == 5

\* build_als_model.py main(): "if len(items) < 5" trains and writes nothing
ALS_MIN_ITEMS == 5

\* build_als_model.py main(): n_factors = min(32, ...), then max(n_factors, 5)
ALS_MAX_FACTORS == 32
ALS_MIN_FACTORS == 5

\* generate_narrative_carousels.py
MIN_ITEMS_PER_CAROUSEL == 4

\* main(): homepage_items = [...][:12]
HOMEPAGE_LIMIT == 12

\* main(): cold-start discount 0.3 = COLD_START_DISCOUNT / 10
COLD_START_DISCOUNT == 3

---------------------------------------------------------------------------
(* Bounds of the model.                                                    *)

\* largest click_count of a row of content_clicks
MaxCount == 2
\* largest (clipped) prediction of the regression model
MaxPred == 2
\* number of failed runs of the two scripts together
MaxCrashes == 2
\* package categories and high-citation papers of the carousel generators
MaxCategories == 2
MaxPapers == 2
\* items handed to the round-robin selector, and its largest max_count
MaxMatched == 5
MaxMaxCount == 6
\* items of the scored catalog handed to the output step
MaxRanked == 14
\* click rows and impression rows read by build_als_model
MaxAlsRows == 2
\* largest number of sessions and of items of the interaction matrix
MaxShape == 36
\* entries of one catalog source file
MaxFileLen == 2
\* clusters in the cluster file, and items of one cluster
MaxPostClusters == 3
MaxClusterSize == 3

---------------------------------------------------------------------------
(* The catalog.  load_all_content() yields one record per deduplicated     *)
(* name; the model keeps the fields the scorer reads: the normalised name, *)
(* the type, and `feat`, which stands for the item's whole feature vector  *)
(* (two items with the same feat get the same regression prediction).      *)

AllItems ==
  << [name |-> "i1",  type |-> "paper",   feat |-> "fa"],
     [name |-> "i2",  type |-> "package", feat |-> "fb"],
     [name |-> "i 3", type |-> "paper",   feat |-> "fa"],
     [name |-> "i4",  type |-> "talk",    feat |-> "fb"],
     [name |-> "i5",  type |-> "paper",   feat |-> "fa"],
     [name |-> "i6",  type |-> "book",    feat |-> "fb"] >>

Feats == {"fa", "fb"}

\* catalog sizes explored: below and above the training threshold
CatalogSizes == {3, Len(AllItems)}

ItemNames(its) == {its[i].name : i \in DOMAIN its}

\* str.lower().strip() on the raw names that occur in engagement rows
LowerStrip(raw) ==
  CASE raw = "I1 "  -> "i1"
    [] raw = " ZZ"  -> "zz"
    [] raw = "A"    -> "a"
    [] raw = "a "   -> "a"
    [] raw = "B"    -> "b"
    [] raw = " "    -> ""
    [] OTHER        -> raw

\* str.lower() alone, as build_als_model.py applies it
Lower(raw) ==
  CASE raw = "I1 "  -> "i1 "
    [] raw = "I1"   -> "i1"
    [] raw = " ZZ"  -> " zz"
    [] OTHER        -> raw

\* last.lower().replace('-', ' ').replace('_', ' ') on a path segment
SlugToName(seg) ==
  CASE seg = "i-3" -> "i 3"
    [] seg = "i_3" -> "i 3"
    [] seg = "I6"  -> "i6"
    [] OTHER       -> seg

\* extract_item_name_from_path: a path is the sequence of the segments of
\* path.strip('/').split('/'); the empty path is <<>>.
extract_item_name_from_path(path) ==
  IF Len(path) >= 2 THEN SlugToName(path[Len(path)]) ELSE None

---------------------------------------------------------------------------
(* Engagement rows as fetch_engagement_data() returns them.                *)

EmptyEngagement ==
  [clicks |-> <<>>, impressions |-> <<>>, dwell |-> <<>>, scroll |-> <<>>,
   search_clicks |-> <<>>, session_tiers |-> <<>>, frustration |-> <<>>,
   cooccurrence |-> <<>>]

\* names that the optional extra row is about: the most clicked item, the
\* last item of either catalog, and a name that is in no catalog
ProbeNames == {"i1", "i 3", "i6", "zz"}
ProbePaths == {<<"packages", "i1">>, <<"papers", "i-3">>, <<"books", "I6">>,
               <<"packages", "zz">>, <<"i6">>}

ExtraRows ==
       {[kind |-> "impressions", row |-> [name |-> n, impression_count |-> 1]]
          : n \in ProbeNames \cup {"I1 "}}
  \cup {[kind |-> "dwell",
         row |-> [name |-> n, total_dwell |-> d, total_viewable |-> v]]
          : n \in ProbeNames, d \in {0, 5}, v \in {0, 3}}
  \cup {[kind |-> "scroll", row |-> [path |-> p, milestone |-> m, count |-> 1]]
          : p \in ProbePaths, m \in {25, 50, 75, 90}}
  \cup {[kind |-> "search_clicks", row |-> [query |-> "q", clicks |-> <<n>>]]
          : n \in ProbeNames}
  \cup {[kind |-> "session_tiers", row |-> [content_sequence |-> s]]
          : s \in {<<"i1">>, <<"i 3">>, <<"i6">>, <<"zz">>, <<"i1", "i6">>}}
  \cup {[kind |-> "frustration", row |-> [path |-> p, event_type |-> e, count |-> c]]
          : p \in ProbePaths, e \in {"rage_click", "quick_bounce"}, c \in {1, 3}}
  \cup {[kind |-> "cooccurrence",
         row |-> [item_a |-> ab[1], item_b |-> ab[2],
                  coview_count |-> 1, coclick_count |-> k]]
          : ab \in {<<"i1", "i6">>, <<"i6", "zz">>, <<"i 3", "i1">>}, k \in {0, 1}}

\* click counts per catalog position, non-increasing along the catalog
ClickProfiles(n) ==
  {c \in [1..n -> 0..MaxCount] : \A i \in 1..(n-1) : c[i] >= c[i+1]}

\* the click counts of the specification's end-to-end example: three items,
\* the first with 100 clicks
ExampleProfiles(n) == IF n = 3 THEN {<<100, 0, 0>>} ELSE {}

RECURSIVE ClickRows(_, _, _)
ClickRows(its, c, i) ==
  IF i > Len(its) THEN <<>>
  ELSE (IF c[i] > 0
          THEN <<[name |-> its[i].name, section |-> "s", click_count |-> c[i]]>>
          ELSE <<>>) \o ClickRows(its, c, i + 1)

WithExtra(data, x) == [data EXCEPT ![x.kind] = Append(@, x.row)]

---------------------------------------------------------------------------
(* build_engagement_scores(): the two defaultdicts `scores` and            *)
(* `item_signals`, updated row by row in the order of the code.            *)

ZeroSignals ==
  [clicks |-> 0, impressions |-> 0, dwell_ms |-> 0, viewable_sec |-> 0,
   scroll_90 |-> 0, scroll_75 |-> 0, scroll_50 |-> 0,
   search_clicks |-> 0, deep_sessions |-> 0,
   rage_clicks |-> 0, quick_bounces |-> 0,
   coviews |-> 0, coclicks |-> 0]

\* scores[name] += v   (defaultdict(float))
AddScore(scores, name, v) ==
  IF name \in DOMAIN scores THEN [scores EXCEPT ![name] = @ + v]
  ELSE scores @@ (name :> v)

\* item_signals[name][field] += v   (defaultdict of the zero record)
AddSignal(signals, name, field, v) ==
  IF name \in DOMAIN signals THEN [signals EXCEPT ![name][field] = @ + v]
  ELSE signals @@ (name :> [ZeroSignals EXCEPT ![field] = v])

\* one "scores[name] += amount * weight; item_signals[name][field] += amount"
Bump(acc, name, field, amount, weight) ==
  [acc EXCEPT !.scores  = AddScore(@, name, amount * weight),
              !.signals = AddSignal(@, name, field, amount)]

\* lines 253-257
RECURSIVE AggClicks(_, _, _)
AggClicks(rows, i, acc) ==
  IF i > Len(rows) THEN acc
  ELSE AggClicks(rows, i + 1,
         Bump(acc, LowerStrip(rows[i].name), "clicks",
              rows[i].click_count, CLICK_WEIGHT))

\* lines 260-264
RECURSIVE AggImpressions(_, _, _)
AggImpressions(rows, i, acc) ==
  IF i > Len(rows) THEN acc
  ELSE AggImpressions(rows, i + 1,
         Bump(acc, LowerStrip(rows[i].name), "impressions",
              rows[i].impression_count, IMPRESSION_WEIGHT))

\* lines 267-277; total_dwell is in tenths of a minute, so that
\* minutes * DWELL_WEIGHT (times 10) is total_dwell * DWELL_WEIGHT \div 10
DwellRow(acc, row) ==
  LET name == LowerStrip(row.name)
      a1 == [acc EXCEPT
               !.scores  = AddScore(@, name, (row.total_dwell * DWELL_WEIGHT) \div 10),
               !.signals = AddSignal(@, name, "dwell_ms", row.total_dwell)]
  IN  Bump(a1, name, "viewable_sec", row.total_viewable, VIEWABLE_WEIGHT)

RECURSIVE AggDwell(_, _, _)
AggDwell(rows, i, acc) ==
  IF i > Len(rows) THEN acc
  ELSE AggDwell(rows, i + 1, DwellRow(acc, rows[i]))

\* lines 280-294
ScrollRow(acc, row) ==
  LET name == extract_item_name_from_path(row.path)
  IN  IF name = None THEN acc
      ELSE IF row.milestone >= 90
             THEN Bump(acc, name, "scroll_90", row.count, SCROLL_90_WEIGHT)
      ELSE IF row.milestone >= 75
             THEN Bump(acc, name, "scroll_75", row.count, SCROLL_75_WEIGHT)
      ELSE IF row.milestone >= 50
             THEN Bump(acc, name, "scroll_50", row.count, SCROLL_50_WEIGHT)
      ELSE acc

RECURSIVE AggScroll(_, _, _)
AggScroll(rows, i, acc) ==
  IF i > Len(rows) THEN acc
  ELSE AggScroll(rows, i + 1, ScrollRow(acc, rows[i]))

\* lines 297-313: every entry of a session's click list counts once
RECURSIVE SearchClickList(_, _, _)
SearchClickList(clicks, j, acc) ==
  IF j > Len(clicks) THEN acc
  ELSE LET name == LowerStrip(clicks[j])
       IN  SearchClickList(clicks, j + 1,
             IF name # "" THEN Bump(acc, name, "search_clicks", 1, SEARCH_CLICK_WEIGHT)
             ELSE acc)

RECURSIVE AggSearchClicks(_, _, _)
AggSearchClicks(rows, i, acc) ==
  IF i > Len(rows) THEN acc
  ELSE AggSearchClicks(rows, i + 1, SearchClickList(rows[i].clicks, 1, acc))

\* lines 316-326
RECURSIVE DeepSessionList(_, _, _)
DeepSessionList(seq, j, acc) ==
  IF j > Len(seq) THEN acc
  ELSE DeepSessionList(seq, j + 1,
         Bump(acc, LowerStrip(seq[j]), "deep_sessions", 1, DEEP_SESSION_WEIGHT))

RECURSIVE AggSessionTiers(_, _, _)
AggSessionTiers(rows, i, acc) ==
  IF i > Len(rows) THEN acc
  ELSE AggSessionTiers(rows, i + 1,
         DeepSessionList(rows[i].content_sequence, 1, acc))

\* variant: frustration counted with the sign of a positive signal
FrustrationRow_Positive(acc, row) ==
  LET name == extract_item_name_from_path(row.path)
  IN  IF name = None THEN acc
      ELSE IF row.event_type = "rage_click"
             THEN Bump(acc, name, "rage_clicks", row.count, -RAGE_CLICK_WEIGHT)
      ELSE IF row.event_type = "quick_bounce"
             THEN Bump(acc, name, "quick_bounces", row.count, -QUICK_BOUNCE_WEIGHT)
      ELSE acc

\* lines 329-340
FrustrationRow(acc, row) ==
  LET name == extract_item_name_from_path(row.path)
  IN  IF name = None THEN acc
      ELSE IF row.event_type = "rage_click"
             THEN Bump(acc, name, "rage_clicks", row.count, RAGE_CLICK_WEIGHT)
      ELSE IF row.event_type = "quick_bounce"
             THEN Bump(acc, name, "quick_bounces", row.count, QUICK_BOUNCE_WEIGHT)
      ELSE acc

RECURSIVE AggFrustration(_, _, _)
AggFrustration(rows, i, acc) ==
  IF i > Len(rows) THEN acc
  ELSE AggFrustration(rows, i + 1, FrustrationRow(acc, rows[i]))

\* lines 343-361: cooccur_scores is accumulated apart and added at the end,
\* which for exact numbers is adding each boost to scores directly
CooccurrenceRow(acc, row) ==
  LET a == LowerStrip(row.item_a)
      b == LowerStrip(row.item_b)
      boost == row.coview_count * COVIEW_WEIGHT + row.coclick_count * COCLICK_WEIGHT
      s1 == AddScore(AddScore(acc.scores, a, boost), b, boost)
      g1 == AddSignal(acc.signals, a, "coviews", row.coview_count)
      g2 == AddSignal(g1, a, "coclicks", row.coclick_count)
      g3 == AddSignal(g2, b, "coviews", row.coview_count)
      g4 == AddSignal(g3, b, "coclicks", row.coclick_count)
  IN  [scores |-> s1, signals |-> g4]

RECURSIVE AggCooccurrence(_, _, _)
AggCooccurrence(rows, i, acc) ==
  IF i > Len(rows) THEN acc
  ELSE AggCooccurrence(rows, i + 1, CooccurrenceRow(acc, rows[i]))

\* variant: the clamp is left out
ClampScores_None(scores) == scores

\* lines 364-365: scores[name] = max(0, scores[name])
ClampScores(scores) == [n \in DOMAIN scores |-> Max2(0, scores[n])]

\* lines 232-367
build_engagement_scores(data) ==
  LET a0 == [scores |-> EmptyDict, signals |-> EmptyDict]
      a1 == AggClicks(data.clicks, 1, a0)
      a2 == AggImpressions(data.impressions, 1, a1)
      a3 == AggDwell(data.dwell, 1, a2)
      a4 == AggScroll(data.scroll, 1, a3)
      a5 == AggSearchClicks(data.search_clicks, 1, a4)
      a6 == AggSessionTiers(data.session_tiers, 1, a5)
      a7 == AggFrustration(data.frustration, 1, a6)
      a8 == AggCooccurrence(data.cooccurrence, 1, a7)
  IN  [scores |-> ClampScores(a8.scores), signals |-> a8.signals]

---------------------------------------------------------------------------
(* normalize_scores(), lines 784-796, on a dict of rationals.              *)

\* variant: the minimum is not subtracted
normalize_scores_NoShift(scores) ==
  IF DOMAIN scores = {} THEN EmptyDict
  ELSE LET values  == Range(scores)
           min_val == RMin(values)
           max_val == RMax(values)
       IN  IF max_val = min_val
             THEN [k \in DOMAIN scores |-> RHalf]
             ELSE [k \in DOMAIN scores |->
                     RDiv(scores[k], RSub(max_val, min_val))]

\* variant: a zero range yields 0 instead of the midpoint
normalize_scores_ZeroRangeZero(scores) ==
  IF DOMAIN scores = {} THEN EmptyDict
  ELSE LET values  == Range(scores)
           min_val == RMin(values)
           max_val == RMax(values)
       IN  IF max_val = min_val
             THEN [k \in DOMAIN scores |-> RZero]
             ELSE [k \in DOMAIN scores |->
                     RDiv(RSub(scores[k], min_val), RSub(max_val, min_val))]

\* lines 784-796
normalize_scores(scores) ==
  IF DOMAIN scores = {} THEN EmptyDict
  ELSE LET values  == Range(scores)
           min_val == RMin(values)
           max_val == RMax(values)
       IN  IF max_val = min_val
             THEN [k \in DOMAIN scores |-> RHalf]
             ELSE [k \in DOMAIN scores |->
                     RDiv(RSub(scores[k], min_val), RSub(max_val, min_val))]

\* an integer-valued dict as a dict of rationals
AsRat(d) == [k \in DOMAIN d |-> <<d[k], 1>>]

\* rank_content.py normalize(), lines 43-51, on a list of rationals
normalize(values) ==
  IF values = <<>> THEN <<>>
  ELSE LET min_val == RMin(Range(values))
           max_val == RMax(Range(values))
       IN  IF max_val = min_val
             THEN [i \in DOMAIN values |-> RHalf]
             ELSE [i \in DOMAIN values |->
                     RDiv(RSub(values[i], min_val), RSub(max_val, min_val))]

---------------------------------------------------------------------------
(* main(), lines 851-870: the names with a "real interaction".             *)

RowNames(rows) == {LowerStrip(rows[i].name) : i \in DOMAIN rows}

ScrollNames(rows) ==
  {extract_item_name_from_path(rows[i].path) :
      i \in {j \in DOMAIN rows : rows[j].path # <<>>}} \ {None}

SearchClickNames(rows) ==
  UNION {{LowerStrip(rows[i].clicks[j]) : j \in DOMAIN rows[i].clicks} :
            i \in DOMAIN rows} \ {""}

AnyInteractionNames(data) ==
  RowNames(data.clicks) \cup RowNames(data.impressions) \cup RowNames(data.dwell)
    \cup ScrollNames(data.scroll) \cup SearchClickNames(data.search_clicks)

---------------------------------------------------------------------------
(* train_regression_model(), lines 481-612.                                *)

RegressionTarget_FromRawScore(signals, name) ==
  LET g == Get(signals, name, ZeroSignals)
  IN  g.clicks * CLICK_WEIGHT + g.impressions * IMPRESSION_WEIGHT
        + (g.dwell_ms * DWELL_WEIGHT) \div 10 + g.viewable_sec * VIEWABLE_WEIGHT
        + g.scroll_90 * SCROLL_90_WEIGHT + g.search_clicks * SEARCH_CLICK_WEIGHT

\* lines 488-499: the regression target of one item, times 10
RegressionTarget(signals, name) ==
  LET g == Get(signals, name, ZeroSignals)
  IN  g.clicks * CLICK_WEIGHT + g.impressions * IMPRESSION_WEIGHT
        + (g.dwell_ms * DWELL_WEIGHT) \div 10

\* line 503: n_with_score = np.sum(y > 0)
NWithScore(its, signals) ==
  Cardinality({i \in DOMAIN its : RegressionTarget(signals, its[i].name) > 0})

TrainingSkipped_ThresholdThree(its, signals) == NWithScore(its, signals) < 3

\* lines 508-510
TrainingSkipped(its, signals) == NWithScore(its, signals) < MIN_TRAIN_SAMPLES

\* lines 594-610: the fitted model is some function of the feature vector,
\* clipped at 0; `pred` is that function on the feature vectors present
ItemByName(its, n) == its[CHOOSE i \in DOMAIN its : its[i].name = n]

PredictedScores(its, pred) ==
  [n \in ItemNames(its) |-> pred[ItemByName(its, n).feat]]

---------------------------------------------------------------------------
(* main(), lines 892-933.                                                  *)

\* variant: the cold-start prediction is not discounted
HybridCombined_NoDiscount(its, inter, raw, reg) ==
  LET norm_engagement == normalize_scores(AsRat(raw))
      norm_predicted  == normalize_scores(AsRat(reg))
      combined ==
        [n \in ItemNames(its) |->
           IF n \in inter
             THEN Get(norm_engagement, n, RZero)
             ELSE Get(norm_predicted, n, RZero)]
  IN  normalize_scores(combined)

\* variant: an item counts as observed when it has a raw score
HybridCombined_ObservedByRawScore(its, inter, raw, reg) ==
  LET norm_engagement == normalize_scores(AsRat(raw))
      norm_predicted  == normalize_scores(AsRat(reg))
      combined ==
        [n \in ItemNames(its) |->
           IF n \in DOMAIN raw
             THEN Get(norm_engagement, n, RZero)
             ELSE RMul(Get(norm_predicted, n, RZero), <<COLD_START_DISCOUNT, 10>>)]
  IN  normalize_scores(combined)

\* lines 893-912: hybrid scoring
HybridCombined(its, inter, raw, reg) ==
  LET norm_engagement == normalize_scores(AsRat(raw))
      norm_predicted  == normalize_scores(AsRat(reg))
      combined ==
        [n \in ItemNames(its) |->
           IF n \in inter
             THEN Get(norm_engagement, n, RZero)
             ELSE RMul(Get(norm_predicted, n, RZero), <<COLD_START_DISCOUNT, 10>>)]
  IN  normalize_scores(combined)

\* lines 914-916: the fallback
WeightedCombined(raw) == normalize_scores(AsRat(raw))

\* lines 919-922
ColdStart(name, inter) == name \notin inter

\* lines 925-933
BuildAllScores(its, combined, inter, signals) ==
  [n \in ItemNames(its) |->
     [score      |-> Get(combined, n, RZero),
      cold_start |-> ColdStart(n, inter),
      signals    |-> Get(signals, n, EmptyDict)]]

---------------------------------------------------------------------------
(* The run of main() as a state machine.                                   *)

Init ==
  /\ pc = "load"
  /\ items = <<>>
  /\ engagement_data = EmptyEngagement
  /\ any_interaction_names = {}
  /\ raw_scores = EmptyDict
  /\ item_signals = EmptyDict
  /\ model = None
  /\ regression_scores = EmptyDict
  /\ combined_scores = EmptyDict
  /\ scoring_method = None
  /\ all_scores = EmptyDict
  /\ sel_pc = "input"
  /\ cluster_item_ids = <<>>
  /\ centrality = EmptyDict
  /\ max_items = 0
  /\ lambda_param = 0
  /\ selection = None
  /\ mmr_out = <<>>
  /\ rerun = None
  /\ als = [status |-> "not_run", items |-> {}, trained |-> FALSE,
            written |-> FALSE]
  /\ files = [clusters |-> [gen |-> 0, complete |-> TRUE],
              rankings |-> "old", homepage |-> "old"]
  /\ run = [rank |-> "idle", post |-> "idle", loaded |-> 0, crashes |-> 0]
  /\ pp = [pc |-> "input"]
  /\ ld = [pc |-> "input"]
  /\ am = [pc |-> "input"]
  /\ nc = [pc |-> "input"]
  /\ out = [pc |-> "input"]

\* line 834
LoadAllContent ==
  /\ pc = "load"
  /\ \E n \in CatalogSizes : items' = SubSeq(AllItems, 1, n)
  /\ pc' = "fetch"
  /\ UNCHANGED <<selVars, auxVars>>
  /\ UNCHANGED <<engagement_data, any_interaction_names, raw_scores, item_signals,
                 model, regression_scores, combined_scores, scoring_method, all_scores>>

\* lines 841-870: the rows fetched are a click profile over the catalog
\* and at most one further row of any kind
FetchEngagementData ==
  /\ pc = "fetch"
  /\ \E c \in ClickProfiles(Len(items)) \cup ExampleProfiles(Len(items)) :
       LET base == [EmptyEngagement EXCEPT !.clicks = ClickRows(items, c, 1)]
       IN  \/ engagement_data' = base
           \/ \E x \in ExtraRows : engagement_data' = WithExtra(base, x)
  /\ any_interaction_names' = AnyInteractionNames(engagement_data')
  /\ pc' = "aggregate"
  /\ UNCHANGED <<selVars, auxVars>>
  /\ UNCHANGED <<items, raw_scores, item_signals, model, regression_scores,
                 combined_scores, scoring_method, all_scores>>

\* line 886
BuildEngagementScores ==
  /\ pc = "aggregate"
  /\ LET r == build_engagement_scores(engagement_data)
     IN  /\ raw_scores' = r.scores
         /\ item_signals' = r.signals
  /\ pc' = "train"
  /\ UNCHANGED <<selVars, auxVars>>
  /\ UNCHANGED <<items, engagement_data, any_interaction_names, model,
                 regression_scores, combined_scores, scoring_method, all_scores>>

\* line 890, training skipped
TrainSkipped ==
  /\ pc = "train"
  /\ TrainingSkipped(items, item_signals)
  /\ model' = None
  /\ regression_scores' = EmptyDict
  /\ pc' = "score"
  /\ UNCHANGED <<selVars, auxVars>>
  /\ UNCHANGED <<items, engagement_data, any_interaction_names, raw_scores,
                 item_signals, combined_scores, scoring_method, all_scores>>

\* line 890, a model is fitted
TrainRegressionModel ==
  /\ pc = "train"
  /\ ~TrainingSkipped(items, item_signals)
  /\ \E pred \in [Feats -> 0..MaxPred] :
       regression_scores' = PredictedScores(items, pred)
  /\ model' = "fitted"
  /\ pc' = "score"
  /\ UNCHANGED <<selVars, auxVars>>
  /\ UNCHANGED <<items, engagement_data, any_interaction_names, raw_scores,
                 item_signals, combined_scores, scoring_method, all_scores>>

\* line 890: build_features_for_regression, fit or predict raises; neither
\* train_regression_model nor main() catches it, and the run ends there
TrainRegressionModelRaises ==
  /\ pc = "train"
  /\ pc' = "aborted"
  /\ UNCHANGED <<selVars, auxVars>>
  /\ UNCHANGED <<items, engagement_data, any_interaction_names, raw_scores,
                 item_signals, model, regression_scores, combined_scores,
                 scoring_method, all_scores>>

\* lines 893-912
HybridScoring ==
  /\ pc = "score"
  /\ DOMAIN regression_scores # {}
  /\ combined_scores' =
       HybridCombined(items, any_interaction_names, raw_scores, regression_scores)
  /\ scoring_method' = "hybrid_bert"
  /\ pc' = "final"
  /\ UNCHANGED <<selVars, auxVars>>
  /\ UNCHANGED <<items, engagement_data, any_interaction_names, raw_scores,
                 item_signals, model, regression_scores, all_scores>>

\* lines 913-916
WeightedScoring ==
  /\ pc = "score"
  /\ DOMAIN regression_scores = {}
  /\ combined_scores' = WeightedCombined(raw_scores)
  /\ scoring_method' = "weighted"
  /\ pc' = "final"
  /\ UNCHANGED <<selVars, auxVars>>
  /\ UNCHANGED <<items, engagement_data, any_interaction_names, raw_scores,
                 item_signals, model, regression_scores, all_scores>>

\* lines 918-933
BuildFinalScores ==
  /\ pc = "final"
  /\ all_scores' =
       BuildAllScores(items, combined_scores, any_interaction_names, item_signals)
  /\ pc' = "done"
  /\ UNCHANGED <<selVars, auxVars>>
  /\ UNCHANGED <<items, engagement_data, any_interaction_names, raw_scores,
                 item_signals, model, regression_scores, combined_scores,
                 scoring_method>>

---------------------------------------------------------------------------
(* build_als_model.py main(): a separate script over the same event store. *)
(* The model runs it once, after the ranking run.                          *)

\* lines 57-69: all_items, the lower-cased names of the dwell, click and
\* impression rows and of the clicked search results
AlsAllItems(data) ==
       {Lower(data.dwell[i].name) : i \in DOMAIN data.dwell}
  \cup {Lower(data.clicks[i].name) : i \in DOMAIN data.clicks}
  \cup {Lower(data.impressions[i].name) : i \in DOMAIN data.impressions}
  \cup UNION {{Lower(data.search_clicks[i].clicks[j]) :
                  j \in DOMAIN data.search_clicks[i].clicks} :
               i \in DOMAIN data.search_clicks}

\* lines 71-76 (too few items: return), else line 187 (model.fit) and
\* lines 232-233 (json.dump of the recommendations)
BuildAlsModel ==
  /\ pc = "done"
  /\ als.status = "not_run"
  /\ LET all_items == AlsAllItems(engagement_data)
     IN  als' = IF Cardinality(all_items) < ALS_MIN_ITEMS
                  THEN [status |-> "returned", items |-> all_items,
                        trained |-> FALSE, written |-> FALSE]
                  ELSE [status |-> "saved", items |-> all_items,
                        trained |-> TRUE, written |-> TRUE]
  /\ UNCHANGED <<rankVars, selVars, rerun, files, run, extVars>>

NextRank ==
  \/ BuildAlsModel
  \/ LoadAllContent
  \/ FetchEngagementData
  \/ BuildEngagementScores
  \/ TrainSkipped
  \/ TrainRegressionModel
  \/ TrainRegressionModelRaises
  \/ HybridScoring
  \/ WeightedScoring
  \/ BuildFinalScores

Spec == Init /\ [][NextRank]_vars

---------------------------------------------------------------------------
(* Properties of the ranking run.                                          *)

Done == pc = "done"
Aggregated == pc \in {"train", "score", "final", "done"}
Catalog == ItemNames(items)

\* C1: every entry of the ranking has a final score in [0, 1], in the
\* hybrid and in the weighted path.
C1_ScoreInUnitInterval ==
  Done => \A n \in Catalog :
            /\ n \in DOMAIN all_scores
            /\ RLe(RZero, all_scores[n].score)
            /\ RLe(all_scores[n].score, ROne)

\* a finished hybrid run with a cold-start item and scores 0, 1 and
\* strictly in between
C1_Witness ==
  /\ Done
  /\ scoring_method = "hybrid_bert"
  /\ \E n \in Catalog : RLt(RZero, all_scores[n].score)
                          /\ RLt(all_scores[n].score, ROne)
  /\ \E n \in Catalog : all_scores[n].score = RZero
  /\ \E n \in Catalog : all_scores[n].score = ROne
  /\ \E n \in Catalog : all_scores[n].cold_start

\* the names that occur in a row of any signal kind the aggregator reads
EventNames(data) ==
  RowNames(data.clicks) \cup RowNames(data.impressions) \cup RowNames(data.dwell)
    \cup ({extract_item_name_from_path(data.scroll[i].path) :
              i \in DOMAIN data.scroll} \ {None})
    \cup SearchClickNames(data.search_clicks)
    \cup UNION {{LowerStrip(data.session_tiers[i].content_sequence[j]) :
                    j \in DOMAIN data.session_tiers[i].content_sequence} :
                  i \in DOMAIN data.session_tiers}
    \cup ({extract_item_name_from_path(data.frustration[i].path) :
              i \in DOMAIN data.frustration} \ {None})
    \cup {LowerStrip(data.cooccurrence[i].item_a) : i \in DOMAIN data.cooccurrence}
    \cup {LowerStrip(data.cooccurrence[i].item_b) : i \in DOMAIN data.cooccurrence}

\* C2: an item with no interaction event is cold_start, and an item with
\* at least one event of any kind the aggregator reads is not.
C2_ColdStartIffNoEvents ==
  Done => \A n \in Catalog :
            all_scores[n].cold_start <=> (n \notin EventNames(engagement_data))

\* C2, the half that the code keeps: no event at all means cold_start
C2_NoEventsIsCold ==
  Done => \A n \in Catalog :
            n \notin EventNames(engagement_data) => all_scores[n].cold_start

IsCold(n) == all_scores[n].cold_start

NormEngagement(n) == Get(normalize_scores(AsRat(raw_scores)), n, RZero)

WeightedSum(g) ==
    g.clicks * CLICK_WEIGHT + g.impressions * IMPRESSION_WEIGHT
  + (g.dwell_ms * DWELL_WEIGHT) \div 10 + g.viewable_sec * VIEWABLE_WEIGHT
  + g.scroll_90 * SCROLL_90_WEIGHT + g.scroll_75 * SCROLL_75_WEIGHT
  + g.scroll_50 * SCROLL_50_WEIGHT + g.search_clicks * SEARCH_CLICK_WEIGHT
  + g.deep_sessions * DEEP_SESSION_WEIGHT
  + g.rage_clicks * RAGE_CLICK_WEIGHT + g.quick_bounces * QUICK_BOUNCE_WEIGHT
  + g.coviews * COVIEW_WEIGHT + g.coclicks * COCLICK_WEIGHT

PositiveFields ==
  {"clicks", "impressions", "dwell_ms", "viewable_sec", "scroll_90", "scroll_75",
   "scroll_50", "search_clicks", "deep_sessions", "coviews", "coclicks"}
FrustrationFields == {"rage_clicks", "quick_bounces"}

FrustrationOnly(g) ==
  /\ \A f \in PositiveFields : g[f] = 0
  /\ \E f \in FrustrationFields : g[f] > 0

\* C6: the raw score of a name is max(0, weighted sum of its signal
\* breakdown); it is never negative, and 0 for a frustration-only name.
C6_RawScoreIsClampedWeightedSum ==
  Aggregated =>
     /\ DOMAIN raw_scores = DOMAIN item_signals
     /\ \A n \in DOMAIN item_signals :
          /\ raw_scores[n] = Max2(0, WeightedSum(item_signals[n]))
          /\ raw_scores[n] >= 0
          /\ FrustrationOnly(item_signals[n]) => raw_scores[n] = 0

\* a frustration-only name, and a name whose clicks are outweighed by
\* rage-clicks, both clamped to 0
C6_Witness ==
  /\ Aggregated
  /\ \E n \in DOMAIN item_signals :
       /\ WeightedSum(item_signals[n]) < 0
       /\ raw_scores[n] = 0
       /\ \/ FrustrationOnly(item_signals[n])
          \/ item_signals[n].clicks > 0

\* signal record a is at least b in every positive signal and at most b in
\* every frustration signal
Dominates(a, b) ==
  /\ \A f \in PositiveFields : a[f] >= b[f]
  /\ \A f \in FrustrationFields : a[f] <= b[f]

\* C7: if A's signals dominate B's, A's raw score, its normalised
\* engagement score and (both observed, or the weighted path) its final
\* score are at least B's.
C7_ScoreMonotoneInSignals ==
  Aggregated =>
    \A a \in DOMAIN item_signals : \A b \in DOMAIN item_signals :
      Dominates(item_signals[a], item_signals[b]) =>
        /\ raw_scores[a] >= raw_scores[b]
        /\ RLe(NormEngagement(b), NormEngagement(a))
        /\ (Done /\ a \in Catalog /\ b \in Catalog
              /\ (scoring_method = "weighted" \/ (~IsCold(a) /\ ~IsCold(b))))
             => RLe(all_scores[b].score, all_scores[a].score)

\* a finished run with two catalog items that differ in one signal only:
\* more clicks and a strictly higher score, or more rage-clicks and a
\* strictly lower one
C7_Witness ==
  /\ Done
  /\ \E a \in Catalog \cap DOMAIN item_signals :
     \E b \in Catalog \cap DOMAIN item_signals :
       /\ a # b
       /\ Dominates(item_signals[a], item_signals[b])
       /\ item_signals[b].rage_clicks > item_signals[a].rage_clicks
       /\ item_signals[b].clicks = item_signals[a].clicks
       /\ raw_scores[a] > raw_scores[b]
       /\ RLt(all_scores[b].score, all_scores[a].score)

\* the names one engagement row of the given kind is about
NamesOfRow(kind, row) ==
  CASE kind \in {"clicks", "impressions", "dwell"} -> {LowerStrip(row.name)}
    [] kind \in {"scroll", "frustration"} -> {extract_item_name_from_path(row.path)}
    [] kind = "search_clicks" -> {LowerStrip(row.clicks[j]) : j \in DOMAIN row.clicks}
    [] kind = "session_tiers" ->
         {LowerStrip(row.content_sequence[j]) : j \in DOMAIN row.content_sequence}
    [] OTHER -> {LowerStrip(row.item_a), LowerStrip(row.item_b)}

\* the engagement data without the rows none of whose names is a catalog item
JoinedRows(data, names) ==
  [kind \in DOMAIN data |->
     LET Joins(row) == NamesOfRow(kind, row) \cap names # {}
     IN  SelectSeq(data[kind], Joins)]

\* the scores main() computes from the given rows, with the predictions
\* of this run's model
ScoresFrom(data) ==
  LET r     == build_engagement_scores(data)
      inter == AnyInteractionNames(data)
      combined ==
        IF scoring_method = "hybrid_bert"
          THEN HybridCombined(items, inter, r.scores, regression_scores)
          ELSE WeightedCombined(r.scores)
  IN  BuildAllScores(items, combined, inter, r.signals)

\* C12: rows that join no catalog item leave no entry in the ranking, and
\* every catalog item has the score and the cold_start flag it has when
\* those rows are removed from the input.
C12_UnjoinedRowsHaveNoEffect ==
  Done =>
    /\ DOMAIN all_scores = Catalog
    /\ LET expected == ScoresFrom(JoinedRows(engagement_data, Catalog))
       IN  \A n \in Catalog :
             /\ all_scores[n].score = expected[n].score
             /\ all_scores[n].cold_start = expected[n].cold_start

NormPredicted(n) == Get(normalize_scores(AsRat(regression_scores)), n, RZero)

\* the combined score of a catalog item before the last normalisation of
\* the hybrid path, as the specification states it
PreNormalized(n) ==
  IF n \in any_interaction_names THEN NormEngagement(n)
  ELSE RMul(<<COLD_START_DISCOUNT, 10>>, NormPredicted(n))

\* the scores that go into the last normalisation are all equal
ZeroRange ==
  \/ /\ scoring_method = "weighted"
     /\ Cardinality(Range(raw_scores)) = 1
  \/ /\ scoring_method = "hybrid_bert"
     /\ Cardinality({PreNormalized(n) : n \in Catalog}) = 1

\* the catalog items' raw scores as a list, for rank_content's normalize()
RawList == [i \in DOMAIN items |-> <<Get(raw_scores, items[i].name, 0), 1>>]

C13_HybridZeroRange == Done /\ ZeroRange /\ scoring_method = "hybrid_bert"

\* the pre-normalisation score the flag of an item calls for
ScoreByFlag(n) ==
  IF all_scores[n].cold_start
    THEN RMul(<<COLD_START_DISCOUNT, 10>>, NormPredicted(n))
    ELSE NormEngagement(n)

C15_TrainingFailureKeepsRanking ==
  pc = "aborted" => DOMAIN all_scores = Catalog

\* the end-to-end example: A = "i1" with 100 clicks and nothing else,
\* B = "i 3" with A's features, C = "i2" with other features
ExampleRun ==
  /\ Len(items) = 3
  /\ engagement_data =
       [EmptyEngagement EXCEPT
          !.clicks = <<[name |-> "i1", section |-> "s", click_count |-> 100]>>]

\* C16: in the example, A is not cold_start and has the strictly highest
\* score, B and C are cold_start, and B scores strictly above C.
C16_EndToEndExample ==
  (Done /\ ExampleRun) =>
    /\ ~all_scores["i1"].cold_start
    /\ RLt(all_scores["i 3"].score, all_scores["i1"].score)
    /\ RLt(all_scores["i2"].score, all_scores["i1"].score)
    /\ all_scores["i 3"].cold_start /\ all_scores["i2"].cold_start
    /\ RLt(all_scores["i2"].score, all_scores["i 3"].score)

\* C16, the part that holds: A is observed and strictly on top, B and C are
\* cold_start (with the same score 0)
C16_ExampleObservedOnTop ==
  (Done /\ ExampleRun) =>
    /\ ~all_scores["i1"].cold_start
    /\ all_scores["i1"].score = RHalf
    /\ all_scores["i 3"].cold_start /\ all_scores["i2"].cold_start
    /\ all_scores["i 3"].score = RZero /\ all_scores["i2"].score = RZero
    /\ scoring_method = "weighted"

\* the distinct item names that occur in any row of the engagement tables
InteractionItems(data) ==
  AlsAllItems(data)
    \cup ScrollNames(data.scroll) \cup ScrollNames(data.frustration)
    \cup UNION {{data.session_tiers[i].content_sequence[j] :
                    j \in DOMAIN data.session_tiers[i].content_sequence} :
                  i \in DOMAIN data.session_tiers}
    \cup UNION {{data.cooccurrence[i].item_a, data.cooccurrence[i].item_b} :
                  i \in DOMAIN data.cooccurrence}

FewEngaged == Cardinality(InteractionItems(engagement_data)) < MIN_TRAIN_SAMPLES

C14_TrainedAboveThreshold ==
  /\ Done /\ scoring_method = "hybrid_bert"
  /\ als.status = "saved" /\ als.trained

RECURSIVE RowTotal(_, _, _)
RowTotal(rows, n, field) ==
  IF rows = <<>> THEN 0
  ELSE (IF LowerStrip(Head(rows).name) = n THEN Head(rows)[field] ELSE 0)
         + RowTotal(Tail(rows), n, field)

---------------------------------------------------------------------------
(* postprocess_clusters.py: the diversity selector.                        *)
(*                                                                         *)
(* Numbers.  Embeddings are unit vectors in the directions k * 60 degrees  *)
(* (emb = k), whose cosines are 1, 1/2, -1/2, -1: a similarity is carried  *)
(* times 2.  Component scores of the relevance and hero scores are carried *)
(* times 10000, the weighted blends times 100 more.  The intra-list        *)
(* diversity score of the result is not modelled.                          *)

\* the metadata items (all_items, id_to_idx) and their embeddings; "g1" is
\* an id of the cluster file that the embeddings metadata does not know;
\* date 0 and stars 0 stand for a missing field
SelItems ==
  [t1 |-> [type |-> "talk",    date |-> 0, stars |-> 0, difficulty |-> "intermediate", emb |-> 0],
   t2 |-> [type |-> "talk",    date |-> 0, stars |-> 0, difficulty |-> "intermediate", emb |-> 1],
   k1 |-> [type |-> "package", date |-> 0, stars |-> 0, difficulty |-> "beginner",     emb |-> 3],
   a1 |-> [type |-> "paper",   date |-> 2024, stars |-> 0, difficulty |-> "advanced",     emb |-> 2],
   a2 |-> [type |-> "paper",   date |-> 0, stars |-> 0, difficulty |-> "intermediate", emb |-> 5],
   d1 |-> [type |-> "dataset", date |-> 0, stars |-> 0, difficulty |-> "intermediate", emb |-> 4]]

id_to_idx == DOMAIN SelItems
AllIds == id_to_idx \cup {"g1"}

\* load_papers_citations()
citations_data == [a1 |-> 1000, a2 |-> 0]

\* the order of item ids as strings
IdRank == [a1 |-> 1, a2 |-> 2, d1 |-> 3, g1 |-> 4, k1 |-> 5, t1 |-> 6, t2 |-> 7]

\* bounds: the largest cluster, and the number of centrality levels
MaxCluster == 4
MaxCentrality == 2

\* centrality_score = (cosine + 1) / 2, in steps of 0.3, times 10000
CentralityScore(level) == 3000 * level

\* np.dot(a, b) / (norm(a) * norm(b)) on the directions a, b; times 2
cosine_similarity(a, b) ==
  LET d == (a - b + 6) % 6
  IN  CASE d = 0 -> 2
        [] d \in {1, 5} -> 1
        [] d \in {2, 4} -> -1
        [] OTHER -> -2

Sim(x, y) == cosine_similarity(SelItems[x].emb, SelItems[y].emb)

\* np.log1p(c) times 1000, on the citation counts that occur
Log1p(c) == CASE c = 1000 -> 6909 [] c = 10000 -> 9210 [] OTHER -> 0

DIFFICULTY_SCORES == [beginner |-> 2000, intermediate |-> 5000, advanced |-> 8000]

SetMax(S) == CHOOSE x \in S : \A y \in S : y <= x

SeqToSet(q) == {q[i] : i \in DOMAIN q}

\* lines 168-226; scores times 1000000
compute_relevance_scores(ids, cent) ==
  LET cited == {x \in SeqToSet(ids) \cap DOMAIN citations_data : citations_data[x] > 0}
      max_log_citations == SetMax({1000} \cup {Log1p(citations_data[x]) : x \in cited})
      citation_score(x) ==
        IF SelItems[x].type = "paper" /\ x \in cited
          THEN (Log1p(citations_data[x]) * 10000) \div max_log_citations
          ELSE 5000
  IN  [x \in SeqToSet(ids) |->
         IF x \notin id_to_idx THEN 0
         ELSE 30 * citation_score(x)
                + 20 * DIFFICULTY_SCORES[SelItems[x].difficulty]
                + 50 * CentralityScore(cent[x])]

MEDIA_RICHNESS ==
  [talk |-> 10000, resource |-> 5000, book |-> 4000, paper |-> 4000,
   package |-> 3000, dataset |-> 3000, community |-> 2000, career |-> 1000]

TYPE_ENGAGEMENT_DEFAULTS ==
  [talk |-> 8000, resource |-> 6000, paper |-> 5000, book |-> 5000,
   package |-> 4000, dataset |-> 3000, community |-> 2000, career |-> 1000]

Min2(a, b) == IF a <= b THEN a ELSE b

\* np.exp(-0.15 * years_old) times 10000, for the years that occur
RecencyScore(year) == CASE year = 2024 -> 10000 [] OTHER -> 5488

\* lines 262-328; score times 1000000
compute_hero_score(item, item_id) ==
  LET media_score == MEDIA_RICHNESS[item.type]
      authority_score ==
        IF item.type = "paper" /\ item_id \in DOMAIN citations_data
          THEN (IF citations_data[item_id] > 0
                  THEN Min2(10000, (Log1p(citations_data[item_id]) * 10000) \div Log1p(1000))
                  ELSE 3000)
        ELSE IF item.type = "talk" THEN 6000
        ELSE IF item.type = "book" THEN 5000
        ELSE 3000
      engagement_score ==
        IF item.stars > 0
          THEN Min2(10000, (Log1p(item.stars) * 10000) \div Log1p(10000))
          ELSE TYPE_ENGAGEMENT_DEFAULTS[item.type]
      year == IF item.date # 0 THEN item.date ELSE 2020
      recency_score == RecencyScore(year)
  IN  20 * media_score + 25 * authority_score
        + 30 * engagement_score + 25 * recency_score

\* lines 350-364: the first item of the strictly highest score
RECURSIVE HeroLoop(_, _, _, _)
HeroLoop(ids, i, best_hero, best_score) ==
  IF i > Len(ids) THEN best_hero
  ELSE IF ids[i] \notin id_to_idx THEN HeroLoop(ids, i + 1, best_hero, best_score)
  ELSE LET hero_score == compute_hero_score(SelItems[ids[i]], ids[i])
       IN  IF best_hero = None \/ hero_score > best_score
             THEN HeroLoop(ids, i + 1, ids[i], hero_score)
             ELSE HeroLoop(ids, i + 1, best_hero, best_score)

\* lines 331-364
select_hero(ids) == IF ids = <<>> THEN None ELSE HeroLoop(ids, 1, None, 0)


MIN_PER_TYPE ==
  [paper |-> 2, talk |-> 1, resource |-> 1, package |-> 1, book |-> 1,
   dataset |-> 0, community |-> 0, career |-> 0]

\* line 406
type_order ==
  <<"talk", "resource", "book", "paper", "package", "dataset", "community", "career">>

\* list.sort(key=lambda x: -x[1]): stable, highest relevance first
RECURSIVE SortByRelevance(_, _)
SortByRelevance(q, rel) ==
  IF q = <<>> THEN <<>>
  ELSE LET top   == SetMax({rel[q[i]] : i \in DOMAIN q})
           first == CHOOSE i \in DOMAIN q :
                      /\ rel[q[i]] = top
                      /\ \A j \in 1..(i-1) : rel[q[j]] # top
           rest  == [j \in 1..(Len(q)-1) |-> IF j < first THEN q[j] ELSE q[j+1]]
       IN  <<q[first]>> \o SortByRelevance(rest, rel)

\* coverage.append(item_id) unless already there, for the items of q in order
RECURSIVE AppendNew(_, _)
AppendNew(coverage, q) ==
  IF q = <<>> THEN coverage
  ELSE AppendNew(IF Head(q) \in SeqToSet(coverage) THEN coverage
                 ELSE Append(coverage, Head(q)), Tail(q))

\* lines 408-426
RECURSIVE CoverageLoop(_, _, _, _)
CoverageLoop(ids, rel, t, coverage) ==
  IF t > Len(type_order) THEN coverage
  ELSE LET item_type  == type_order[t]
           min_count  == MIN_PER_TYPE[item_type]
           IsType(x)  == x \in id_to_idx /\ SelItems[x].type = item_type
           type_items == SelectSeq(ids, IsType)
           ranked     == SortByRelevance(type_items, rel)
           taken      == SubSeq(ranked, 1, Min2(min_count, Len(ranked)))
       IN  IF type_items = <<>> \/ min_count = 0
             THEN CoverageLoop(ids, rel, t + 1, coverage)
             ELSE CoverageLoop(ids, rel, t + 1, AppendNew(coverage, taken))

\* lines 380-428
ensure_type_coverage(ids, rel) == CoverageLoop(ids, rel, 1, <<>>)

\* line 586: lambda_param=0.6, in tenths
LAMBDA_CAROUSEL == 6

\* lines 473-479: max_sim starts at 0.0
MaxSim(x, selected) ==
  SetMax({0} \cup {Sim(x, selected[i]) : i \in DOMAIN selected})

\* line 482, times 10000000: lambda * rel - (1 - lambda) * max_sim
MmrScore(x, selected, rel, lam) ==
  lam * Get(rel, x, 0) - (10 - lam) * MaxSim(x, selected) * 500000

\* lines 462-486: the candidates that can end the scan as best_item; the
\* scan is over a set, whose order is not fixed, and keeps the first item
\* of the highest score
MmrBest(selected, remaining, rel, lam) ==
  LET scored == remaining \cap id_to_idx
  IN  {x \in scored :
         \A y \in scored : MmrScore(y, selected, rel, lam) <= MmrScore(x, selected, rel, lam)}

\* lines 461-492: every list the loop can build
RECURSIVE MmrLoop(_, _, _, _, _)
MmrLoop(selected, remaining, rel, num_select, lam) ==
  IF Len(selected) >= num_select \/ remaining = {} THEN {selected}
  ELSE LET best == MmrBest(selected, remaining, rel, lam)
       IN  IF best = {} THEN {selected}
           ELSE UNION {MmrLoop(Append(selected, b), remaining \ {b},
                               rel, num_select, lam) : b \in best}

\* lines 431-494: the set of lists mmr_select can return
mmr_select(candidate_ids, rel, num_select, lam) ==
  IF Len(candidate_ids) <= num_select THEN {candidate_ids}
  ELSE MmrLoop(<<>>, SeqToSet(candidate_ids), rel, num_select, lam)

\* list.remove(x): without the first occurrence of x
RemoveFirst(q, x) ==
  LET i == CHOOSE k \in DOMAIN q : q[k] = x /\ \A j \in 1..(k-1) : q[j] # x
  IN  [j \in 1..(Len(q)-1) |-> IF j < i THEN q[j] ELSE q[j+1]]

\* variant: a hero that is already in the list is left where it is
PlaceHero_NoMove(hero, ordered_items, n) ==
  IF hero # None /\ hero \in SeqToSet(ordered_items)
    THEN ordered_items
  ELSE IF hero # None
    THEN SubSeq(<<hero>> \o ordered_items, 1, Min2(n, Len(ordered_items) + 1))
  ELSE ordered_items

\* variant: the hero is put in front without being removed from the list
PlaceHero_NoRemove(hero, ordered_items, n) ==
  IF hero # None /\ hero \in SeqToSet(ordered_items)
    THEN <<hero>> \o ordered_items
  ELSE IF hero # None
    THEN SubSeq(<<hero>> \o ordered_items, 1, Min2(n, Len(ordered_items) + 1))
  ELSE ordered_items

\* lines 594-600: move or insert the hero at the front
PlaceHero(hero, ordered_items, n) ==
  IF hero # None /\ hero \in SeqToSet(ordered_items)
    THEN <<hero>> \o RemoveFirst(ordered_items, hero)
  ELSE IF hero # None
    THEN SubSeq(<<hero>> \o ordered_items, 1, Min2(n, Len(ordered_items) + 1))
  ELSE ordered_items

TypesOf(q) == {SelItems[x].type : x \in SeqToSet(q) \cap id_to_idx}

\* lines 535-616: the set of results select_diverse_items can return
select_diverse_items(ids, cent, n) ==
  IF ids = <<>>
    THEN {[hero |-> None, type_coverage |-> {}, ordered_items |-> <<>>,
           coverage_items |-> <<>>, mmr_selected |-> <<>>]}
  ELSE IF SeqToSet(ids) \cap id_to_idx = {}
    THEN {[hero |-> None, type_coverage |-> {},
           ordered_items |-> SubSeq(ids, 1, Min2(n, Len(ids))),
           coverage_items |-> <<>>, mmr_selected |-> <<>>]}
  ELSE
    LET relevance_scores == compute_relevance_scores(ids, cent)
        hero == select_hero(ids)
        type_coverage == ensure_type_coverage(ids, relevance_scores)
        NotCovered(x) == x \notin SeqToSet(type_coverage)
        remaining_candidates == SelectSeq(ids, NotCovered)
        slots_remaining == n - Len(type_coverage)
        mmr_choices ==
          IF slots_remaining > 0 /\ remaining_candidates # <<>>
            THEN mmr_select(remaining_candidates, relevance_scores, slots_remaining,
                            LAMBDA_CAROUSEL)
            ELSE {<<>>}
    IN  {LET ordered_items == PlaceHero(hero, type_coverage \o mmr_selected, n)
         IN  [hero |-> hero, type_coverage |-> TypesOf(ordered_items),
              ordered_items |-> ordered_items,
              coverage_items |-> type_coverage, mmr_selected |-> mmr_selected]
           : mmr_selected \in mmr_choices}

---------------------------------------------------------------------------
(* The selector as a state machine: main() step 6 loads a cluster's ids    *)
(* and calls select_diverse_items; mmr_select is also called directly.     *)

\* the ids of S in ascending id order
RECURSIVE SortById(_)
SortById(S) ==
  IF S = {} THEN <<>>
  ELSE LET x == CHOOSE y \in S : \A z \in S : IdRank[y] <= IdRank[z]
       IN  <<x>> \o SortById(S \ {x})

Reverse(q) == [i \in 1..Len(q) |-> q[Len(q) + 1 - i]]

\* the cluster lists explored: every set of at most MaxCluster ids, in
\* ascending and in descending id order
ClusterLists ==
  UNION {{SortById(S), Reverse(SortById(S))} :
           S \in {T \in SUBSET AllIds : Cardinality(T) <= MaxCluster}}

Lambdas == {0, LAMBDA_CAROUSEL, 10}

\* lines 950-952 and 551-559: the cluster's ids and the geometry of its
\* embeddings around their centroid
LoadCluster ==
  /\ sel_pc = "input"
  /\ \E ids \in ClusterLists :
       /\ cluster_item_ids' = ids
       /\ \E cent \in [SeqToSet(ids) \cap id_to_idx -> 1..MaxCentrality] :
            centrality' = cent
  /\ sel_pc' = "ready"
  /\ UNCHANGED <<max_items, lambda_param, selection, mmr_out>>
  /\ UNCHANGED <<rankVars, auxVars>>

\* lines 955-963 (max_items=15 there), for any max_items within the bound
SelectDiverseItems ==
  /\ sel_pc = "ready"
  /\ \E n \in 1..MaxCluster :
       /\ max_items' = n
       /\ \E r \in select_diverse_items(cluster_item_ids, centrality, n) :
            selection' = r
  /\ sel_pc' = "selected"
  /\ UNCHANGED <<cluster_item_ids, centrality, lambda_param, mmr_out>>
  /\ UNCHANGED <<rankVars, auxVars>>

\* mmr_select on the cluster's ids, for any num_select and lambda_param
MmrSelect ==
  /\ sel_pc = "ready"
  /\ \E k \in 1..MaxCluster : \E lam \in Lambdas :
       /\ max_items' = k
       /\ lambda_param' = lam
       /\ \E r \in mmr_select(cluster_item_ids,
                              compute_relevance_scores(cluster_item_ids, centrality),
                              k, lam) :
            mmr_out' = r
  /\ sel_pc' = "mmr_done"
  /\ UNCHANGED <<cluster_item_ids, centrality, selection>>
  /\ UNCHANGED <<rankVars, auxVars>>

\* a second run of the selector on the same cluster, centrality and max_items
\* (a second process: the iteration order of mmr_select's set is chosen anew)
RerunSelectDiverseItems ==
  /\ sel_pc = "selected"
  /\ \E r \in select_diverse_items(cluster_item_ids, centrality, max_items) :
       rerun' = r
  /\ sel_pc' = "rerun"
  /\ UNCHANGED <<cluster_item_ids, centrality, max_items, lambda_param,
                 selection, mmr_out>>
  /\ UNCHANGED <<rankVars, als, files, run, extVars>>

NextSelect == LoadCluster \/ SelectDiverseItems \/ RerunSelectDiverseItems
NextMmr    == LoadCluster \/ MmrSelect

SpecSelect == Init /\ [][NextSelect]_vars
SpecMmr    == Init /\ [][NextMmr]_vars

---------------------------------------------------------------------------
(* The artifacts on disk.  `files` holds what a reader of each file would  *)
(* find: the ranking and homepage files are "old" (a previous run's),      *)
(* "partial" (opened with 'w', json.dump not finished) or "new"; the       *)
(* cluster file is generation `gen` (0: as the clustering step left it,    *)
(* g+1: post-processed from generation g) and complete or not.  `run`      *)
(* holds the position of a run of each script and what it has loaded.      *)

filesFrame == UNCHANGED <<rankVars, selVars, rerun, als, extVars>>

\* rank_all_content.py main(), lines 822-1060: inputs read, ranking computed
RankCompute ==
  /\ run.rank = "idle"
  /\ run' = [run EXCEPT !.rank = "compute"]
  /\ UNCHANGED files
  /\ filesFrame

\* line 1064: open(output_path, 'w') truncates the ranking file
RankOpenRankings ==
  /\ run.rank = "compute"
  /\ files' = [files EXCEPT !.rankings = "partial"]
  /\ run' = [run EXCEPT !.rank = "rankings_open"]
  /\ filesFrame

\* line 1065: json.dump(output, f) has finished
RankDumpRankings ==
  /\ run.rank = "rankings_open"
  /\ files' = [files EXCEPT !.rankings = "new"]
  /\ run' = [run EXCEPT !.rank = "rankings_written"]
  /\ filesFrame

\* line 1076: open(homepage_path, 'w')
RankOpenHomepage ==
  /\ run.rank = "rankings_written"
  /\ files' = [files EXCEPT !.homepage = "partial"]
  /\ run' = [run EXCEPT !.rank = "homepage_open"]
  /\ filesFrame

\* line 1077: json.dump(homepage_data, f) has finished
RankDumpHomepage ==
  /\ run.rank = "homepage_open"
  /\ files' = [files EXCEPT !.homepage = "new"]
  /\ run' = [run EXCEPT !.rank = "finished"]
  /\ filesFrame

\* the run fails somewhere between reading its inputs and its last write;
\* the files stay as they are and the next run starts from scratch
RankFails ==
  /\ run.rank \in {"compute", "rankings_open", "rankings_written", "homepage_open"}
  /\ run.crashes < MaxCrashes
  /\ run' = [run EXCEPT !.rank = "idle", !.crashes = @ + 1]
  /\ UNCHANGED files
  /\ filesFrame

\* postprocess_clusters.py load_clusters() (lines 76-79), called at line
\* 730: json.load raises on a file that is not complete JSON
LoadClusters ==
  /\ run.post = "idle"
  /\ run' = IF files.clusters.complete
              THEN [run EXCEPT !.post = "process", !.loaded = files.clusters.gen]
              ELSE [run EXCEPT !.post = "load_failed"]
  /\ UNCHANGED files
  /\ filesFrame

\* line 1094: open(CLUSTERS_FILE, 'w') truncates the file the run has read
PostOpenClusters ==
  /\ run.post = "process"
  /\ files' = [files EXCEPT !.clusters = [gen |-> run.loaded + 1, complete |-> FALSE]]
  /\ run' = [run EXCEPT !.post = "save_open"]
  /\ filesFrame

\* line 1095: json.dump(output, f) has finished
PostDumpClusters ==
  /\ run.post = "save_open"
  /\ files' = [files EXCEPT !.clusters.complete = TRUE]
  /\ run' = [run EXCEPT !.post = "saved"]
  /\ filesFrame

\* lines 1097-1107: the summary is printed
PostSummary ==
  /\ run.post = "saved"
  /\ run' = [run EXCEPT !.post = "finished"]
  /\ UNCHANGED files
  /\ filesFrame

\* the run fails after load_clusters and before main() returns
PostFails ==
  /\ run.post \in {"process", "save_open", "saved"}
  /\ run.crashes < MaxCrashes
  /\ run' = [run EXCEPT !.post = "idle", !.crashes = @ + 1]
  /\ UNCHANGED files
  /\ filesFrame

NextFiles ==
  \/ RankCompute
  \/ RankOpenRankings
  \/ RankDumpRankings
  \/ RankOpenHomepage
  \/ RankDumpHomepage
  \/ RankFails
  \/ LoadClusters
  \/ PostOpenClusters
  \/ PostDumpClusters
  \/ PostSummary
  \/ PostFails

SpecFiles == Init /\ [][NextFiles]_vars

---------------------------------------------------------------------------
(* rank_all_content.py load_all_content(): the catalog is read from eight  *)
(* source files in a fixed order and deduplicated by normalised name.      *)
(* `ld.files` maps each file name to its list of raw entries; an entry is  *)
(* [name, title] as item.get() sees them ("" for a missing or empty one).  *)

ldFrame == UNCHANGED <<rankVars, selVars, rerun, als, files, run, pp, am, nc, out>>

\* lines 85-94: content_files, in dict order
content_files ==
  << [filename |-> "papers_flat.json", type |-> "paper"],
     [filename |-> "packages.json",    type |-> "package"],
     [filename |-> "datasets.json",    type |-> "dataset"],
     [filename |-> "resources.json",   type |-> "resource"],
     [filename |-> "career.json",      type |-> "career"],
     [filename |-> "community.json",   type |-> "community"],
     [filename |-> "talks.json",       type |-> "talk"],
     [filename |-> "books.json",       type |-> "book"] >>

RawEntries ==
  { [name |-> "A",  title |-> ""], [name |-> "a ", title |-> ""],
    [name |-> "b",  title |-> ""], [name |-> "",   title |-> "B"],
    [name |-> "",   title |-> ""], [name |-> " ",  title |-> ""] }

RawLists == UNION {[1..n -> RawEntries] : n \in 0..MaxFileLen}

\* line 108: item.get(name_field) or item.get('title', '')
EntryName(e) == IF e.name # "" THEN e.name ELSE e.title

LoadEntry_NoDedupe(acc, e, type) ==
  LET name == EntryName(e)
  IN  IF name = "" THEN acc
      ELSE [items |-> Append(acc.items,
                        [name |-> LowerStrip(name), original_name |-> name,
                         type |-> type]),
            seen_names |-> acc.seen_names \cup {LowerStrip(name)}]

\* lines 106-120 for one entry: returns [items, seen_names]
LoadEntry(acc, e, type) ==
  LET name == EntryName(e)
      normalized_name == LowerStrip(name)
  IN  IF name = "" \/ normalized_name \in acc.seen_names THEN acc
      ELSE [items |-> Append(acc.items,
                        [name |-> normalized_name, original_name |-> name,
                         type |-> type]),
            seen_names |-> acc.seen_names \cup {normalized_name}]

RECURSIVE LoadFile(_, _, _, _)
LoadFile(acc, data, i, type) ==
  IF i > Len(data) THEN acc
  ELSE LoadFile(LoadEntry(acc, data[i], type), data, i + 1, type)

RECURSIVE LoadFiles(_, _, _)
LoadFiles(acc, src, f) ==
  IF f > Len(content_files) THEN acc
  ELSE LoadFiles(LoadFile(acc, src[content_files[f].filename], 1,
                          content_files[f].type),
                 src, f + 1)

\* lines 79-154
load_all_content(src) == LoadFiles([items |-> <<>>, seen_names |-> {}], src, 1).items

FileNames == {content_files[f].filename : f \in DOMAIN content_files}

\* the data directory: two of the source files have entries
ChooseSourceFiles ==
  /\ ld.pc = "input"
  /\ \E f1, f2 \in DOMAIN content_files : \E d1, d2 \in RawLists :
       /\ f1 < f2
       /\ ld' = [pc |-> "files",
                 files |-> [fn \in FileNames |->
                              IF fn = content_files[f1].filename THEN d1
                              ELSE IF fn = content_files[f2].filename THEN d2
                              ELSE <<>>]]
  /\ ldFrame

\* main(), line 834: items = load_all_content(data_dir)
LoadCatalog ==
  /\ ld.pc = "files"
  /\ ld' = [ld EXCEPT !.pc = "loaded"] @@ [items |-> load_all_content(ld.files)]
  /\ ldFrame

NextLoad == ChooseSourceFiles \/ LoadCatalog

SpecLoad == Init /\ [][NextLoad]_vars

---------------------------------------------------------------------------
(* rank_all_content.py main(), step 8: the ranked output and the homepage  *)
(* list, as a function of items and all_scores.  Scores of entries are     *)
(* round(score, 4), kept as integers (score * 10000).                      *)

outFrame == UNCHANGED <<rankVars, selVars, rerun, als, files, run, pp, ld, am, nc>>

\* round(x, 4) of a rational in [0, 1], times 10000
Round4(r) == (2 * 10000 * r[1] + r[2]) \div (2 * r[2])

\* lines 937-956
RankingEntries(its, scores) ==
  [i \in DOMAIN its |->
     [name |-> its[i].original_name, type |-> its[i].type,
      score |-> Round4(scores[its[i].name].score),
      cold_start |-> scores[its[i].name].cold_start]]

\* rankings.sort(key=lambda x: x['score'], reverse=True): stable
RECURSIVE InsertByScore(_, _)
InsertByScore(sorted, e) ==
  IF sorted = <<>> THEN <<e>>
  ELSE IF Head(sorted).score >= e.score
         THEN <<Head(sorted)>> \o InsertByScore(Tail(sorted), e)
         ELSE <<e>> \o sorted

RECURSIVE SortByScoreDesc(_)
SortByScoreDesc(es) ==
  IF es = <<>> THEN <<>>
  ELSE InsertByScore(SortByScoreDesc(SubSeq(es, 1, Len(es) - 1)), es[Len(es)])

\* lines 961-963
WithRanks(es) == [i \in DOMAIN es |-> es[i] @@ [rank |-> i]]

FirstN(q, n) == SubSeq(q, 1, IF Len(q) <= n THEN Len(q) ELSE n)

HomepageItems_NoLimit(rankings) == SelectSeq(rankings, LAMBDA r : ~r.cold_start)

\* line 1069
HomepageItems(rankings) ==
  FirstN(SelectSeq(rankings, LAMBDA r : ~r.cold_start), HOMEPAGE_LIMIT)

\* lines 935-974 and 1068-1074
BuildOutput(its, scores) ==
  LET rankings == WithRanks(SortByScoreDesc(RankingEntries(its, scores)))
  IN  [rankings |-> rankings,
       total_items |-> Len(rankings),
       observed_items |-> Len(SelectSeq(rankings, LAMBDA r : ~r.cold_start)),
       cold_start_items |-> Len(SelectSeq(rankings, LAMBDA r : r.cold_start)),
       homepage_items |-> HomepageItems(rankings)]

\* final scores in [0, 1]; 1/3 and 0.33334 round to the same 0.3333
FinalScoreLevels == << <<0, 1>>, <<1, 3>>, <<33334, 100000>>, <<1, 2>>, <<1, 1>> >>

\* a scored catalog of n items: the scores and the cold_start flags follow
\* one of a family of patterns along the catalog
ScoredCatalog(n, a, b, m, c) ==
  LET its == [i \in 1..n |->
                [name |-> "n" \o ToString(i), original_name |-> "N" \o ToString(i),
                 type |-> "paper"]]
  IN  [items |-> its,
       all_scores |->
         [nm \in {its[i].name : i \in 1..n} |->
            LET i == CHOOSE i \in 1..n : its[i].name = nm
            IN  [score |-> FinalScoreLevels[((i * a + b) % Len(FinalScoreLevels)) + 1],
                 cold_start |-> (m > 0 /\ (i + c) % m = 0)]]]

\* lines 918-933: some items and their all_scores
ScoreCatalog ==
  /\ out.pc = "input"
  /\ \E n \in 0..MaxRanked : \E a \in 0..2 : \E b \in 0..4 :
       \E m \in 0..3 \cup {MaxRanked} : \E c \in 0..2 :
         LET sc == ScoredCatalog(n, a, b, m, c)
         IN  out' = [pc |-> "scored", items |-> sc.items, all_scores |-> sc.all_scores]
  /\ outFrame

\* lines 935-974 and 1068-1077
BuildRankedOutput ==
  /\ out.pc = "scored"
  /\ out' = [out EXCEPT !.pc = "built"] @@ BuildOutput(out.items, out.all_scores)
  /\ outFrame

NextOutput == ScoreCatalog \/ BuildRankedOutput

SpecOutput == Init /\ [][NextOutput]_vars

---------------------------------------------------------------------------
(* generate_narrative_carousels.py select_diverse_items(): the round-robin *)
(* loop, one action per iteration.  An item is [id, type]: id is its       *)
(* position in the input list, type its '_type'.                           *)

ncFrame == UNCHANGED <<rankVars, selVars, rerun, als, files, run, pp, ld, am, out>>

MatchedTypes == {"paper", "talk", "book"}

MatchedLists ==
  UNION {{[i \in 1..n |-> [id |-> i, type |-> ty[i]]] : ty \in [1..n -> MatchedTypes]}
           : n \in 0..MaxMatched}

\* list(by_type.keys()): the types in order of first appearance
RECURSIVE TypeOrder(_, _)
TypeOrder(its, seen) ==
  IF its = <<>> THEN <<>>
  ELSE IF Head(its).type \in seen THEN TypeOrder(Tail(its), seen)
       ELSE <<Head(its).type>> \o TypeOrder(Tail(its), seen \cup {Head(its).type})

\* lines 148-150: by_type[t] is the sublist of the items of type t
ByType(its) ==
  [t \in {its[i].type : i \in DOMAIN its} |->
     SelectSeq(its, LAMBDA x : x.type = t)]

\* lines 146-155: the call, up to the first test of the loop condition
CallSelectDiverse ==
  /\ nc.pc = "input"
  /\ \E its \in MatchedLists : \E max_count \in 0..MaxMaxCount :
       nc' = [pc |-> "loop", items |-> its, max_count |-> max_count,
              by_type |-> ByType(its), types |-> TypeOrder(its, {}),
              selected |-> <<>>, idx |-> 0]
  /\ ncFrame

\* any(by_type.values())
AnyLeft(by_type) == \E t \in DOMAIN by_type : by_type[t] # <<>>

LoopCondition == Len(nc.selected) < nc.max_count /\ AnyLeft(nc.by_type)

PopFirst_Keep(q) == q

\* by_type[t].pop(0) leaves the tail
PopFirst(q) == Tail(q)

\* lines 156-165: one iteration of the while loop
RoundRobinStep ==
  /\ nc.pc = "loop"
  /\ LoopCondition
  /\ LET t == nc.types[(nc.idx % Len(nc.types)) + 1]
         taken == nc.by_type[t] # <<>>
         by_type == IF taken THEN [nc.by_type EXCEPT ![t] = PopFirst(@)]
                    ELSE nc.by_type
         types == SelectSeq(nc.types, LAMBDA u : by_type[u] # <<>>)
     IN  nc' = [nc EXCEPT
                  !.selected = IF taken THEN Append(@, Head(nc.by_type[t])) ELSE @,
                  !.by_type = by_type,
                  !.idx = @ + 1,
                  !.types = types,
                  !.pc = IF types = <<>> THEN "returned" ELSE "loop"]
  /\ ncFrame

\* line 156 false, line 167: return selected
LoopExit ==
  /\ nc.pc = "loop"
  /\ ~LoopCondition
  /\ nc' = [nc EXCEPT !.pc = "returned"]
  /\ ncFrame

NextRoundRobin == CallSelectDiverse \/ RoundRobinStep \/ LoopExit

SpecRoundRobin == Init /\ [][NextRoundRobin]_vars

\* the interpreter keeps executing the function once it is called
SpecRoundRobinFair == SpecRoundRobin /\ WF_vars(NextRoundRobin)

---------------------------------------------------------------------------
(* generate_narrative_carousels.py: carousel ids and merge_carousels().    *)
(* A carousel is [id, template].                                           *)

\* slugify() on the category names that occur
slugify(text) ==
  CASE text = "Causal Inference" -> "causal-inference"
    [] text = "causal inference" -> "causal-inference"
    [] text = "A/B Testing"      -> "ab-testing"
    [] text = "Pricing"          -> "pricing"
    [] OTHER                     -> text

\* slugify() on the paper titles that occur, cut in three: characters
\* 1-30, 31-40 and the rest ("" where the slug is shorter)
SlugParts(title) ==
  CASE title = "Long Title One" -> [h30 |-> "long-title-30", n10 |-> "-next-10", rest |-> "-one"]
    [] title = "Long Title Two" -> [h30 |-> "long-title-30", n10 |-> "-next-10", rest |-> "-two"]
    [] title = "Long Title Alt" -> [h30 |-> "long-title-30", n10 |-> "-other-10", rest |-> ""]
    [] title = "Short"          -> [h30 |-> "short", n10 |-> "", rest |-> ""]
    [] OTHER                    -> [h30 |-> "", n10 |-> "", rest |-> ""]

\* slugify(t)[:30] and slugify(t)[:40]
Slug30(title) == SlugParts(title).h30
Slug40(title) == SlugParts(title).h30 \o SlugParts(title).n10

\* by_category (lines 336-339) as the list of its keys with the number of
\* packages of each
Categories == {"Causal Inference", "causal inference", "A/B Testing", "Pricing"}

CategoryLists ==
  {q \in UNION {[1..n -> Categories \X {MIN_ITEMS_PER_CAROUSEL - 1, MIN_ITEMS_PER_CAROUSEL}]
                  : n \in 0..MaxCategories} :
     \A i, j \in DOMAIN q : q[i][1] = q[j][1] => i = j}

\* lines 341-383: one carousel per category with enough packages
generate_tool_carousels(by_category) ==
  LET kept == SelectSeq(by_category, LAMBDA c : c[2] >= MIN_ITEMS_PER_CAROUSEL)
  IN  [i \in DOMAIN kept |->
         [id |-> "tools-" \o slugify(kept[i][1]), template |-> "tool"]]

\* a high-citation paper: its 'title' ("" when the key is absent), its
\* 'name', and whether select_diverse_items finds enough related items
Papers ==
  {[title |-> t, name |-> n, related |-> r] :
     t \in {"Long Title One", "Long Title Two", "Long Title Alt", "Short", ""},
     n \in {"Short"}, r \in {2, 3}}

PaperLists == UNION {[1..n -> Papers] : n \in 0..MaxPapers}

\* line 447, with title = paper.get('title', paper.get('name', ''))
MethodId(p) == "method-" \o Slug40(IF p.title # "" THEN p.title ELSE p.name)

\* lines 399-406: dedupe by slugify(p.get('title', ''))[:30]
RECURSIVE UniquePapers(_, _)
UniquePapers(ps, seen_titles) ==
  IF ps = <<>> THEN <<>>
  ELSE LET title_key == Slug30(Head(ps).title)
       IN  IF title_key \in seen_titles THEN UniquePapers(Tail(ps), seen_titles)
           ELSE <<Head(ps)>> \o UniquePapers(Tail(ps), seen_titles \cup {title_key})

\* lines 386-465; a paper with fewer than 3 related items is skipped
generate_method_carousels(high_citation) ==
  LET kept == SelectSeq(UniquePapers(high_citation, {}),
                        LAMBDA p : p.related >= 3)
  IN  [i \in DOMAIN kept |-> [id |-> MethodId(kept[i]), template |-> "method"]]

\* load_existing_manual_carousels(): carousels of the existing file whose
\* id is one of the manual ids
ManualLists ==
  { <<>>,
    <<[id |-> "netflix-prize", template |-> "manual"]>>,
    <<[id |-> "susan-athey-universe", template |-> "manual"],
      [id |-> "netflix-prize", template |-> "manual"]>> }

\* person and journey carousels, ids f"{slug}-universe" and slugify(name)
PersonJourneyLists ==
  { <<>>,
    <<[id |-> "susan-athey-universe", template |-> "person"]>>,
    <<[id |-> "netflix-prize", template |-> "journey"]>>,
    <<[id |-> "hal-varian-universe", template |-> "person"],
      [id |-> "netflix-prize", template |-> "journey"]>> }

\* lines 482-492
merge_carousels(manual, generated) ==
  LET manual_ids == {manual[i].id : i \in DOMAIN manual}
  IN  manual \o SelectSeq(generated, LAMBDA c : c.id \notin manual_ids)

\* main(), lines 541-559
GenerateCarousels ==
  /\ nc.pc = "input"
  /\ \E pj \in PersonJourneyLists : \E cats \in CategoryLists :
       \E papers \in PaperLists : \E manual \in ManualLists :
         nc' = [pc |-> "generated",
                by_category |-> cats, high_citation |-> papers,
                manual_carousels |-> manual,
                all_generated |-> pj \o generate_tool_carousels(cats)
                                    \o generate_method_carousels(papers)]
  /\ ncFrame

\* main(), line 566
MergeCarousels ==
  /\ nc.pc = "generated"
  /\ nc' = [nc EXCEPT !.pc = "merged"]
            @@ [final_carousels |->
                  merge_carousels(nc.manual_carousels, nc.all_generated)]
  /\ ncFrame

NextMerge == GenerateCarousels \/ MergeCarousels

SpecMerge == Init /\ [][NextMerge]_vars

---------------------------------------------------------------------------
(* build_als_model.py main(): the number of latent factors.                *)

amFrame == UNCHANGED <<rankVars, selVars, rerun, als, files, run, pp, ld, nc, out>>

n_factors_NoFloor(n_users, n_items) ==
  IF ALS_MAX_FACTORS <= (IF n_users <= n_items THEN n_users ELSE n_items) - 1
    THEN ALS_MAX_FACTORS
    ELSE (IF n_users <= n_items THEN n_users ELSE n_items) - 1

\* lines 175-176
n_factors(n_users, n_items) ==
  LET smaller == IF n_users <= n_items THEN n_users ELSE n_items
      capped == IF ALS_MAX_FACTORS <= smaller - 1 THEN ALS_MAX_FACTORS ELSE smaller - 1
  IN  IF capped >= ALS_MIN_FACTORS THEN capped ELSE ALS_MIN_FACTORS

\* lines 163-165: n_users = len(sessions), n_items = len(items); the run
\* gets here with at least ALS_MIN_ITEMS items
MatrixShape ==
  /\ am.pc = "input"
  /\ \E n_users \in 1..MaxShape : \E n_items \in ALS_MIN_ITEMS..MaxShape :
       am' = [pc |-> "shape", n_users |-> n_users, n_items |-> n_items]
  /\ amFrame

\* lines 175-187
TrainAls ==
  /\ am.pc = "shape"
  /\ am' = [am EXCEPT !.pc = "trained"]
            @@ [n_factors |-> n_factors(am.n_users, am.n_items)]
  /\ amFrame

NextFactors == MatrixShape \/ TrainAls

---------------------------------------------------------------------------
(* build_als_model.py main(): sessions and the interaction matrix.  Rows   *)
(* are as the four queries return them; a missing or NULL-free empty name  *)
(* is "".  Scores are multiplied by 10.                                    *)

\* dwell rows of two real sessions over four items
BackgroundDwell ==
  << [session_id |-> "s1", name |-> "b1", dwell_ms |-> 2000],
     [session_id |-> "s1", name |-> "b2", dwell_ms |-> 1000],
     [session_id |-> "s2", name |-> "b3", dwell_ms |-> 4000],
     [session_id |-> "s2", name |-> "b4", dwell_ms |-> 1000] >>

DwellInputs ==
  { <<>>, BackgroundDwell,
    Append(BackgroundDwell, [session_id |-> "s1", name |-> "I1", dwell_ms |-> 3000]) }

ClickRowsOfAls ==
  {[name |-> n, click_count |-> c] : n \in {"i1", "I1", "i2", ""}, c \in {0, 3}}

ImpressionRowsOfAls ==
  {[name |-> n, impression_count |-> 1] : n \in {"i1", "i2", ""}}

SearchInputs ==
  { <<>>, <<[session_id |-> "s1", click_name |-> "I1"]>>,
    <<[session_id |-> "", click_name |-> "i2"]>> }

SeqsUpTo(S, n) == UNION {[1..k -> S] : k \in 0..n}

\* lines 44-54
FetchInteractions ==
  /\ am.pc = "input"
  /\ \E dwell \in DwellInputs : \E clicks \in SeqsUpTo(ClickRowsOfAls, MaxAlsRows) :
       \E impressions \in SeqsUpTo(ImpressionRowsOfAls, MaxAlsRows) :
         \E search_queries \in SearchInputs :
           am' = [pc |-> "fetched", dwell |-> dwell, clicks |-> clicks,
                  impressions |-> impressions, search_queries |-> search_queries]
  /\ amFrame

\* lines 57-69
all_items(d) ==
  ( {Lower(d.dwell[i].name) : i \in DOMAIN d.dwell}
    \cup {Lower(d.clicks[i].name) : i \in DOMAIN d.clicks}
    \cup {Lower(d.impressions[i].name) : i \in DOMAIN d.impressions}
    \cup {Lower(d.search_queries[i].click_name) : i \in DOMAIN d.search_queries} )
  \ {""}

\* lines 79-85
RealSessions(d) ==
  ( {d.dwell[i].session_id : i \in DOMAIN d.dwell}
    \cup {d.search_queries[i].session_id : i \in DOMAIN d.search_queries} ) \ {""}

SessionId_Constant(prefix, counter) == prefix \o ToString(0)

\* f"__click_session_{synthetic_session_counter}" and the like
SessionId(prefix, counter) == prefix \o ToString(counter)

\* lines 93-105: one loop; acc is [map, counter]
RECURSIVE AssignSessions(_, _, _, _)
AssignSessions(rows, i, prefix, acc) ==
  IF i > Len(rows) THEN acc
  ELSE LET name == Lower(rows[i].name)
       IN  IF name # "" /\ name \notin DOMAIN acc.map
             THEN AssignSessions(rows, i + 1, prefix,
                    [map |-> acc.map @@ (name :> SessionId(prefix, acc.counter)),
                     counter |-> acc.counter + 1])
             ELSE AssignSessions(rows, i + 1, prefix, acc)

\* interactions[key] += v   (defaultdict(float))
AddInteraction(interactions, key, v) ==
  IF key \in DOMAIN interactions THEN [interactions EXCEPT ![key] = @ + v]
  ELSE interactions @@ (key :> v)

\* lines 118-126
RECURSIVE DwellInteractions(_, _, _, _, _)
DwellInteractions(rows, i, sessions, items_, acc) ==
  IF i > Len(rows) THEN acc
  ELSE LET name == Lower(rows[i].name)
           session == rows[i].session_id
       IN  DwellInteractions(rows, i + 1, sessions, items_,
             IF session \in sessions /\ name \in items_
               THEN AddInteraction(acc, <<session, name>>, rows[i].dwell_ms \div 100)
               ELSE acc)

\* lines 128-146: clicks (count * 10) and impressions (count * 0.5)
RECURSIVE PseudoInteractions(_, _, _, _, _, _, _)
PseudoInteractions(rows, i, field, weight, session_of, items_, acc) ==
  IF i > Len(rows) THEN acc
  ELSE LET name == Lower(rows[i].name)
       IN  PseudoInteractions(rows, i + 1, field, weight, session_of, items_,
             IF name \in DOMAIN session_of /\ name \in items_
               THEN AddInteraction(acc, <<session_of[name], name>>,
                                   rows[i][field] * weight)
               ELSE acc)

\* lines 148-155
RECURSIVE SearchInteractions(_, _, _, _, _)
SearchInteractions(rows, i, sessions, items_, acc) ==
  IF i > Len(rows) THEN acc
  ELSE LET click_name == Lower(rows[i].click_name)
           session == rows[i].session_id
       IN  SearchInteractions(rows, i + 1, sessions, items_,
             IF session # "" /\ click_name # "" /\ session \in sessions
                  /\ click_name \in items_
               THEN AddInteraction(acc, <<session, click_name>>, 50)
               ELSE acc)

\* lines 56-165
BuildMatrix ==
  /\ am.pc = "fetched"
  /\ LET items_ == all_items(am)
     IN  IF Cardinality(items_) < ALS_MIN_ITEMS
           THEN am' = [am EXCEPT !.pc = "returned"]
           ELSE
             LET cs == AssignSessions(am.clicks, 1, "__click_session_",
                                      [map |-> <<>>, counter |-> 0])
                 is == AssignSessions(am.impressions, 1, "__imp_session_",
                                      [map |-> <<>>, counter |-> cs.counter])
                 click_sessions == cs.map
                 impression_sessions == is.map
                 sessions == RealSessions(am) \cup Range(click_sessions)
                               \cup Range(impression_sessions)
                 i1 == DwellInteractions(am.dwell, 1, sessions, items_, <<>>)
                 i2 == PseudoInteractions(am.clicks, 1, "click_count", 100,
                                          click_sessions, items_, i1)
                 i3 == PseudoInteractions(am.impressions, 1, "impression_count", 5,
                                          impression_sessions, items_, i2)
                 i4 == SearchInteractions(am.search_queries, 1, sessions, items_, i3)
             IN  am' = [am EXCEPT !.pc = "matrix"]
                       @@ [items |-> items_, sessions |-> sessions,
                           click_sessions |-> click_sessions,
                           impression_sessions |-> impression_sessions,
                           interactions |-> i4]
  /\ amFrame

NextMatrix == FetchInteractions \/ BuildMatrix

SpecMatrix == Init /\ [][NextMatrix]_vars

SpecFactors == Init /\ [][NextFactors]_vars

---------------------------------------------------------------------------
(* postprocess_clusters.py main(), steps 2, 3 and 5: the consolidator.     *)
(* A cluster is [id, item_count, career, industry, all_item_ids]: `career` *)
(* is is_career_cluster(cluster), `industry` is get_career_industry        *)
(* (cluster), all_item_ids is the '_all_items' list of a new career        *)
(* cluster (empty otherwise).  Item ids are 1..n; item_to_cluster maps     *)
(* each to a cluster id.  Cosine similarities of centroids are in          *)
(* hundredths.                                                             *)

ppFrame == UNCHANGED <<rankVars, selVars, rerun, als, files, run, ld, am, nc, out>>

\* "best_sim = 0.75  # Minimum threshold"
MERGE_THRESHOLD == 75

SimLevels == {60, 75, 80, 90}

ClusterKinds ==
  { [career |-> FALSE, industry |-> ""],
    [career |-> TRUE,  industry |-> "Tech Industry Careers"],
    [career |-> TRUE,  industry |-> "Other Industry Careers"] }

RECURSIVE SumTo(_, _)
SumTo(sizes, i) == IF i = 0 THEN 0 ELSE sizes[i] + SumTo(sizes, i - 1)

\* the cluster file: clusters with ids 0..n-1 and the items of each
PostInput(sizes, kinds) ==
  LET n == Len(sizes)
  IN  [clusters |->
         [i \in 1..n |-> [id |-> i - 1, item_count |-> sizes[i],
                          career |-> kinds[i].career,
                          industry |-> kinds[i].industry,
                          all_item_ids |-> {}]],
       item_to_cluster |->
         [k \in 1..SumTo(sizes, n) |->
            (CHOOSE i \in 1..n : SumTo(sizes, i - 1) < k /\ k <= SumTo(sizes, i)) - 1]]

\* lines 730-732
PostLoad ==
  /\ pp.pc = "input"
  /\ \E n \in 2..MaxPostClusters :
       \E sizes \in [1..n -> 1..MaxClusterSize] : \E kinds \in [1..n -> ClusterKinds] :
         LET inp == PostInput(sizes, kinds)
         IN  pp' = [pc |-> "loaded", clusters |-> inp.clusters,
                    item_to_cluster |-> inp.item_to_cluster]
  /\ ppFrame

ItemsOf(m, cid) == {k \in DOMAIN m : m[k] = cid}

\* the keys of industry_groups in insertion order
RECURSIVE IndustryOrder(_, _)
IndustryOrder(clusters, seen) ==
  IF clusters = <<>> THEN <<>>
  ELSE LET c == Head(clusters)
       IN  IF c.career /\ c.industry \notin seen
             THEN <<c.industry>> \o IndustryOrder(Tail(clusters), seen \cup {c.industry})
             ELSE IndustryOrder(Tail(clusters), seen)

\* lines 780-814: one new cluster per industry, id -1
NewCareerClusters(clusters, item_to_cluster) ==
  LET order == IndustryOrder(clusters, {})
  IN  [j \in DOMAIN order |->
         LET group == {clusters[i].id : i \in {i \in DOMAIN clusters :
                          clusters[i].career /\ clusters[i].industry = order[j]}}
             all_item_ids == {k \in DOMAIN item_to_cluster : item_to_cluster[k] \in group}
         IN  [id |-> -1, item_count |-> Cardinality(all_item_ids),
              career |-> TRUE, industry |-> order[j],
              all_item_ids |-> all_item_ids]]

is_career_cluster(c) == c.career

\* lines 765-814 (step 2)
ConsolidateCareers ==
  /\ pp.pc = "loaded"
  /\ pp' = [pp EXCEPT !.pc = "careers"]
            @@ [non_career_clusters |->
                  SelectSeq(pp.clusters, LAMBDA c : ~is_career_cluster(c)),
                new_career_clusters |->
                  NewCareerClusters(pp.clusters, pp.item_to_cluster)]
  /\ ppFrame

IsLarge(c) == c.item_count > 2
IsSmall(c) == c.item_count <= 2

ClusterIdsOf(cs) == {cs[i].id : i \in DOMAIN cs}

\* lines 842-853: the scan over large_clusters with a strict comparison
RECURSIVE BestMatchFrom(_, _, _, _, _, _)
BestMatchFrom(large_clusters, i, small_id, sim, best_sim, best_match) ==
  IF i > Len(large_clusters) THEN best_match
  ELSE LET v == sim[<<small_id, large_clusters[i].id>>]
       IN  IF v > best_sim
             THEN BestMatchFrom(large_clusters, i + 1, small_id, sim, v, large_clusters[i].id)
             ELSE BestMatchFrom(large_clusters, i + 1, small_id, sim, best_sim, best_match)

BestMatch_FirstAbove(large_clusters, small_id, sim) ==
  LET above == {i \in DOMAIN large_clusters :
                  sim[<<small_id, large_clusters[i].id>>] > MERGE_THRESHOLD}
  IN  IF above = {} THEN -1
      ELSE large_clusters[CHOOSE i \in above : \A j \in above : i <= j].id

\* None is written -1 here: cluster ids are >= 0
BestMatch(large_clusters, small_id, sim) ==
  BestMatchFrom(large_clusters, 1, small_id, sim, MERGE_THRESHOLD, -1)

\* lines 836-857
MergedInto(large_clusters, small_non_career, sim) ==
  LET merged == {c \in ClusterIdsOf(small_non_career) :
                   BestMatch(large_clusters, c, sim) # -1}
  IN  [c \in merged |-> BestMatch(large_clusters, c, sim)]

CountOfCluster(cs, cid) == (CHOOSE i \in DOMAIN cs : cs[i].id = cid)

RECURSIVE SumCounts(_, _)
SumCounts(cs, ids) ==
  IF ids = {} THEN 0
  ELSE LET c == CHOOSE c \in ids : TRUE
       IN  cs[CountOfCluster(cs, c)].item_count + SumCounts(cs, ids \ {c})

\* lines 816-876 (step 3)
MergeSmallClusters ==
  /\ pp.pc = "careers"
  /\ LET large_clusters == SelectSeq(pp.non_career_clusters, IsLarge)
         small_non_career == SelectSeq(pp.non_career_clusters, IsSmall)
     IN  \E sim \in [ClusterIdsOf(small_non_career) \X ClusterIdsOf(large_clusters)
                        -> SimLevels] :
           LET merged_into == MergedInto(large_clusters, small_non_career, sim)
               grown == [i \in DOMAIN large_clusters |->
                           [large_clusters[i] EXCEPT !.item_count =
                              @ + SumCounts(small_non_career,
                                    {c \in DOMAIN merged_into :
                                       merged_into[c] = large_clusters[i].id})]]
           IN  pp' = [pp EXCEPT
                        !.pc = "merged",
                        !.item_to_cluster =
                          [k \in DOMAIN @ |->
                             IF @[k] \in DOMAIN merged_into
                               THEN merged_into[@[k]] ELSE @[k]]]
                     @@ [sim |-> sim,
                         merged_into |-> merged_into,
                         step2_item_to_cluster |-> pp.item_to_cluster,
                         remaining_clusters |->
                           grown \o SelectSeq(small_non_career,
                                      LAMBDA c : c.id \notin DOMAIN merged_into)]
  /\ ppFrame

\* list.sort(key=lambda x: -x['item_count']): stable, by insertion
RECURSIVE InsertByCount(_, _)
InsertByCount(sorted, c) ==
  IF sorted = <<>> THEN <<c>>
  ELSE IF Head(sorted).item_count >= c.item_count
         THEN <<Head(sorted)>> \o InsertByCount(Tail(sorted), c)
         ELSE <<c>> \o sorted

RECURSIVE SortByCountDesc(_)
SortByCountDesc(cs) ==
  IF cs = <<>> THEN <<>>
  ELSE InsertByCount(SortByCountDesc(SubSeq(cs, 1, Len(cs) - 1)), cs[Len(cs)])

\* lines 914-925: the first loop; returns [old_to_new_id, item_to_cluster]
RECURSIVE ReassignIds(_, _, _, _)
ReassignIds(final_clusters, i, old_to_new_id, item_to_cluster) ==
  IF i > Len(final_clusters)
    THEN [old_to_new_id |-> old_to_new_id, item_to_cluster |-> item_to_cluster]
    ELSE LET cluster == final_clusters[i]
             old_id == cluster.id
         IN  IF old_id >= 0
               THEN ReassignIds(final_clusters, i + 1,
                                old_to_new_id @@ (old_id :> (i - 1)),
                                item_to_cluster)
               ELSE ReassignIds(final_clusters, i + 1, old_to_new_id,
                                [k \in DOMAIN item_to_cluster |->
                                   IF k \in cluster.all_item_ids
                                     THEN i - 1 ELSE item_to_cluster[k]])

\* lines 927-931: the second loop
RemapRemaining(item_to_cluster, old_to_new_id) ==
  [k \in DOMAIN item_to_cluster |->
     IF item_to_cluster[k] \in DOMAIN old_to_new_id
       THEN old_to_new_id[item_to_cluster[k]] ELSE item_to_cluster[k]]

\* lines 904-939 (step 5)
FinalizeClusters ==
  /\ pp.pc = "merged"
  /\ LET sorted == SortByCountDesc(pp.remaining_clusters \o pp.new_career_clusters)
         r == ReassignIds(sorted, 1, <<>>, pp.item_to_cluster)
         item_to_cluster == RemapRemaining(r.item_to_cluster, r.old_to_new_id)
     IN  pp' = [pp EXCEPT !.pc = "finalized", !.item_to_cluster = item_to_cluster]
               @@ [sorted_clusters |-> sorted,
                   step3_item_to_cluster |-> pp.item_to_cluster,
                   old_to_new_id |-> r.old_to_new_id,
                   final_clusters |->
                     [i \in DOMAIN sorted |->
                        [sorted[i] EXCEPT
                           !.id = i - 1,
                           !.all_item_ids = {},
                           !.item_count =
                             Cardinality(ItemsOf(item_to_cluster, i - 1))]]]
  /\ ppFrame

NextPost == PostLoad \/ ConsolidateCareers \/ MergeSmallClusters \/ FinalizeClusters

SpecPost == Init /\ [][NextPost]_vars

---------------------------------------------------------------------------
(* Properties of the selector.                                             *)

Selected == sel_pc = "selected"
MmrDone  == sel_pc = "mmr_done"

\* C4: a non-null hero is a member of ordered_items and is its first
\* element.
C4_HeroFirst ==
  (Selected /\ selection.hero # None) =>
     /\ selection.ordered_items # <<>>
     /\ selection.ordered_items[1] = selection.hero
     /\ selection.hero \in SeqToSet(selection.ordered_items)

\* a hero that neither phase selected is inserted and the list truncated
C4_Witness ==
  /\ Selected
  /\ selection.hero # None
  /\ selection.hero \notin SeqToSet(selection.coverage_items \o selection.mmr_selected)
  /\ Len(selection.coverage_items \o selection.mmr_selected) = max_items
  /\ selection.ordered_items[1] = selection.hero

IndexedIds == SeqToSet(cluster_item_ids) \cap id_to_idx
TypesPresent == {SelItems[x].type : x \in IndexedIds}
CountOfType(q, t) ==
  Cardinality({i \in DOMAIN q : q[i] \in id_to_idx /\ SelItems[q[i]].type = t})

RECURSIVE SumQuota(_)
SumQuota(T) ==
  IF T = {} THEN 0
  ELSE LET t == CHOOSE u \in T : TRUE IN MIN_PER_TYPE[t] + SumQuota(T \ {t})

QuotasMet ==
  \A t \in TypesPresent :
     (MIN_PER_TYPE[t] > 0 /\ CountOfType(cluster_item_ids, t) >= MIN_PER_TYPE[t])
       => CountOfType(selection.ordered_items, t) >= MIN_PER_TYPE[t]

\* C5 as stated: with max_items at least the sum of the quotas of the types
\* present, every quota the cluster can fill is filled in ordered_items.
C5_QuotasMetFromQuotaSum ==
  (Selected /\ max_items >= SumQuota(TypesPresent)) => QuotasMet

\* C5, the part that holds: every such quota is filled when max_items is
\* strictly above that sum.
C5_QuotasMetAboveQuotaSum ==
  (Selected /\ max_items > SumQuota(TypesPresent)) => QuotasMet

\* a cluster larger than max_items, max_items above the quota sum, a quota
\* of more than one type to fill, and a hero inserted with truncation
C5_Witness ==
  /\ Selected
  /\ max_items > SumQuota(TypesPresent)
  /\ Len(cluster_item_ids) > max_items
  /\ Len(selection.coverage_items) >= 2
  /\ selection.hero \notin SeqToSet(selection.coverage_items \o selection.mmr_selected)
  /\ Len(selection.ordered_items) = max_items
  /\ QuotasMet

MmrRel == compute_relevance_scores(cluster_item_ids, centrality)
RelOf(q) == [i \in DOMAIN q |-> MmrRel[q[i]]]
Distinct(q) == \A i \in DOMAIN q : \A j \in DOMAIN q : i # j => q[i] # q[j]

\* sorted(candidates, key=-relevance)[:k]
TopKBaseline(k) ==
  SubSeq(SortByRelevance(cluster_item_ids, MmrRel), 1, Min2(k, Len(cluster_item_ids)))

\* C8 as stated: with lambda_param = 1.0 mmr_select returns the list
\* obtained by sorting the candidates by relevance, descending, and taking
\* the first k.
C8_LambdaOneIsSortedTopK ==
  (MmrDone /\ lambda_param = 10) => mmr_out = TopKBaseline(max_items)

\* C8, the part that holds: with lambda_param = 1.0, k below the number of candidates
\* and every candidate embedded, mmr_select returns k distinct candidates
\* whose relevances are, position by position, those of the sorted top k;
\* with k at least the number of candidates it returns the candidates in
\* their input order.
C8_LambdaOneTopKRelevances ==
  (MmrDone /\ lambda_param = 10) =>
     IF max_items >= Len(cluster_item_ids)
       THEN mmr_out = cluster_item_ids
       ELSE SeqToSet(cluster_item_ids) \subseteq id_to_idx =>
              /\ Len(mmr_out) = max_items
              /\ Distinct(mmr_out)
              /\ SeqToSet(mmr_out) \subseteq SeqToSet(cluster_item_ids)
              /\ RelOf(mmr_out) = RelOf(TopKBaseline(max_items))

\* lambda_param = 1.0, 1 < k < number of candidates, all embedded, not all
\* of one relevance, and a list that is not the stable-sorted baseline
C8_Witness ==
  /\ MmrDone /\ lambda_param = 10
  /\ max_items > 1 /\ max_items < Len(cluster_item_ids)
  /\ SeqToSet(cluster_item_ids) \subseteq id_to_idx
  /\ Cardinality(Range(MmrRel)) > 1
  /\ mmr_out # TopKBaseline(max_items)
  /\ RelOf(mmr_out) = RelOf(TopKBaseline(max_items))

Prefix(q, j) == SubSeq(q, 1, j - 1)
RemainingAt(j) == IndexedIds \ SeqToSet(Prefix(mmr_out, j))

\* the largest cosine similarity of x to a non-empty list of items
TrueMaxSim(x, q) == SetMax({Sim(x, q[i]) : i \in DOMAIN q})
ClampedMaxSim(x, q) == Max2(0, TrueMaxSim(x, q))

\* C9 as stated: with lambda_param = 0.0 every pick after the first has the
\* least maximum cosine similarity to the items already selected, among
\* the remaining candidates.
C9_LambdaZeroGreedyDiverse ==
  (MmrDone /\ lambda_param = 0) =>
     \A j \in 2..Len(mmr_out) :
        SeqToSet(SubSeq(mmr_out, 1, j)) \subseteq id_to_idx =>
          \A y \in RemainingAt(j) :
             TrueMaxSim(mmr_out[j], Prefix(mmr_out, j))
               <= TrueMaxSim(y, Prefix(mmr_out, j))

\* C9, the part that holds: with lambda_param = 0.0 and k below the number of
\* candidates, every pick after the first has the least value of
\* max(0, maximum cosine similarity to the items already selected) among
\* the remaining embedded candidates, and picking stops only at k picks or
\* when no embedded candidate remains.
C9_LambdaZeroGreedyClamped ==
  (MmrDone /\ lambda_param = 0 /\ max_items < Len(cluster_item_ids)) =>
     /\ Len(mmr_out) = Min2(max_items, Cardinality(IndexedIds))
     /\ SeqToSet(mmr_out) \subseteq IndexedIds
     /\ Distinct(mmr_out)
     /\ \A j \in 2..Len(mmr_out) :
          \A y \in RemainingAt(j) :
             ClampedMaxSim(mmr_out[j], Prefix(mmr_out, j))
               <= ClampedMaxSim(y, Prefix(mmr_out, j))

\* lambda_param = 0.0, three picks out of four candidates, the third pick
\* of positive similarity to the first two and strictly the least so
C9_Witness ==
  /\ MmrDone /\ lambda_param = 0
  /\ max_items = 3 /\ Len(cluster_item_ids) = 4 /\ Len(mmr_out) = 3
  /\ ClampedMaxSim(mmr_out[3], Prefix(mmr_out, 3)) > 0
  /\ \A y \in RemainingAt(4) :
       ClampedMaxSim(mmr_out[3], Prefix(mmr_out, 3))
         < ClampedMaxSim(y, Prefix(mmr_out, 3))

MinId(S) == CHOOSE x \in S : \A y \in S : IdRank[x] <= IdRank[y]

SelRel == compute_relevance_scores(cluster_item_ids, centrality)
ById == SortById(SeqToSet(cluster_item_ids))

\* C10: ties on hero score, on relevance in the coverage phase and on MMR
\* score are decided by the item id, so that the hero, the coverage picks
\* and every MMR pick are those of the id-ordered cluster.
C10_TiesBrokenById ==
  (Selected /\ selection.hero # None) =>
     /\ selection.hero = select_hero(ById)
     /\ selection.coverage_items = ensure_type_coverage(ById, SelRel)
     /\ Len(selection.mmr_selected) < Len(cluster_item_ids) - Len(selection.coverage_items)
          => \A j \in DOMAIN selection.mmr_selected :
                selection.mmr_selected[j] =
                  MinId(MmrBest(Prefix(selection.mmr_selected, j),
                                (SeqToSet(cluster_item_ids)
                                   \ SeqToSet(selection.coverage_items))
                                   \ SeqToSet(Prefix(selection.mmr_selected, j)),
                                SelRel, LAMBDA_CAROUSEL))

Occurrences(q, x) == Cardinality({i \in DOMAIN q : q[i] = x})

\* C19: ordered_items has at most max_items elements, and the MMR fill
\* stops only when max_items is reached or no candidate is left.
C19_AtMostMaxItems ==
  Selected =>
    /\ Len(selection.ordered_items) <= max_items
    /\ \/ Len(selection.coverage_items) + Len(selection.mmr_selected) >= max_items
       \/ SeqToSet(cluster_item_ids) \cap id_to_idx
            \subseteq SeqToSet(selection.coverage_items \o selection.mmr_selected)

\* C19, the part that holds: the bound is kept whenever max_items is at
\* least the number of coverage items.
C19_AtMostMaxItemsAboveCoverage ==
  (Selected /\ max_items >= Len(selection.coverage_items)) =>
     Len(selection.ordered_items) <= max_items

C11_RerunIdentical ==
  sel_pc = "rerun" =>
    /\ rerun.hero = selection.hero
    /\ rerun.ordered_items = selection.ordered_items

\* C11, the part that holds: the two runs agree on the hero and on the
\* number of items in the carousel
C11_RerunSameHeroAndSize ==
  sel_pc = "rerun" =>
    /\ rerun.hero = selection.hero
    /\ Len(rerun.ordered_items) = Len(selection.ordered_items)


\* what an uninterrupted run of each script leaves behind
RankArtifactsNew == files.rankings = "new" /\ files.homepage = "new"
ClustersProcessedOnce == files.clusters = [gen |-> 1, complete |-> TRUE]

\* C17: a failed run corrupts nothing: a run started from scratch after a
\* failure reads the inputs the failed run read and never fails on them,
\* and every finished run leaves exactly the artifacts of an uninterrupted
\* run.
C17_FailedRunNoCorruption ==
  /\ run.post = "idle" => files.clusters = [gen |-> 0, complete |-> TRUE]
  /\ run.post # "load_failed"
  /\ run.post = "finished" => ClustersProcessedOnce
  /\ run.rank = "finished" => RankArtifactsNew

\* C17, the part that holds: the ranking script rewrites both of its
\* artifacts in full, so a finished rerun leaves them new whatever the
\* failed runs left behind
C17_RankRerunArtifactsNew ==
  run.rank = "finished" => RankArtifactsNew

\* a ranking run has failed in the middle of a write and the rerun is done
C17_RankRerunReached ==
  /\ run.rank = "finished" /\ run.crashes > 0
  /\ run.post = "idle"


---------------------------------------------------------------------------
(* Properties of the consolidator.                                         *)

Finalized == pp.pc = "finalized"

\* position (from 0) in the sorted list of the cluster item k belonged to
\* just before renumbering
ClusterBefore(k) ==
  CHOOSE i \in DOMAIN pp.sorted_clusters :
    LET c == pp.sorted_clusters[i]
    IN  IF c.id = -1 THEN k \in c.all_item_ids
        ELSE /\ pp.step3_item_to_cluster[k] = c.id
             /\ \A j \in DOMAIN pp.sorted_clusters :
                   k \notin pp.sorted_clusters[j].all_item_ids

\* C21: after step 5 every item is mapped to the new id of the cluster it
\* belonged to just before renumbering, and two items share a final cluster
\* exactly when they shared a cluster before.
C21_RenumberingKeepsMembership ==
  Finalized =>
    /\ \A k \in DOMAIN pp.item_to_cluster :
          pp.item_to_cluster[k] = ClusterBefore(k) - 1
    /\ \A k1, k2 \in DOMAIN pp.item_to_cluster :
          (pp.item_to_cluster[k1] = pp.item_to_cluster[k2])
            <=> (ClusterBefore(k1) = ClusterBefore(k2))

\* C21, the part that holds: without career clusters the renumbering keeps
\* the membership
C21_RenumberingWithoutCareers ==
  (Finalized /\ pp.new_career_clusters = <<>>) =>
    \A k \in DOMAIN pp.item_to_cluster :
      pp.item_to_cluster[k] = ClusterBefore(k) - 1

Step3Done == pp.pc \in {"merged", "finalized"}

LargeIds == ClusterIdsOf(SelectSeq(pp.non_career_clusters, IsLarge))
SmallIds == ClusterIdsOf(SelectSeq(pp.non_career_clusters, IsSmall))
InputCluster(cid) == pp.clusters[CHOOSE i \in DOMAIN pp.clusters : pp.clusters[i].id = cid]
RemainingCluster(cid) ==
  pp.remaining_clusters[CHOOSE i \in DOMAIN pp.remaining_clusters :
                          pp.remaining_clusters[i].id = cid]
MergedIds == DOMAIN pp.merged_into

\* C22: a non-career cluster with at most 2 members is merged if and only if
\* its similarity to some large cluster exceeds 0.75, and then into a large
\* cluster of highest similarity: its items are remapped to the target, the
\* target's item_count grows by the merged counts and the merged cluster is
\* dropped; every other cluster is kept unchanged.
C22_SmallClusterMergedIffSimilar ==
  Step3Done =>
    /\ MergedIds \subseteq SmallIds
    /\ \A c \in SmallIds :
          (c \in MergedIds) <=>
             (\E l \in LargeIds : pp.sim[<<c, l>>] > MERGE_THRESHOLD)
    /\ \A c \in MergedIds :
          LET t == pp.merged_into[c]
          IN  /\ t \in LargeIds
              /\ \A l \in LargeIds : pp.sim[<<c, t>>] >= pp.sim[<<c, l>>]
              /\ c \notin ClusterIdsOf(pp.remaining_clusters)
              /\ pp.pc = "merged" =>
                    \A k \in ItemsOf(pp.step2_item_to_cluster, c) :
                      pp.item_to_cluster[k] = t
    /\ \A l \in LargeIds :
          RemainingCluster(l).item_count =
            InputCluster(l).item_count
              + Cardinality({k \in DOMAIN pp.step2_item_to_cluster :
                               pp.step2_item_to_cluster[k] \in MergedIds
                                 /\ pp.merged_into[pp.step2_item_to_cluster[k]] = l})
    /\ \A c \in SmallIds \ MergedIds :
          /\ RemainingCluster(c) = InputCluster(c)
          /\ pp.pc = "merged" =>
                ItemsOf(pp.item_to_cluster, c) = ItemsOf(pp.step2_item_to_cluster, c)

\* a small cluster merged into the second of two large clusters, the more
\* similar one, and another small cluster kept
C22_Witness ==
  /\ pp.pc = "merged"
  /\ \E c \in MergedIds : \E l \in LargeIds :
        /\ l < pp.merged_into[c]
        /\ pp.sim[<<c, l>>] > MERGE_THRESHOLD
        /\ pp.sim[<<c, l>>] < pp.sim[<<c, pp.merged_into[c]>>]

\* a small cluster at exactly the threshold is kept
C22_AtThresholdKept ==
  /\ pp.pc = "merged"
  /\ \E c \in SmallIds \ MergedIds : \E l \in LargeIds :
        pp.sim[<<c, l>>] = MERGE_THRESHOLD

---------------------------------------------------------------------------
(* Properties of load_all_content.                                         *)

CatalogLoaded == ld.pc = "loaded"

\* the entries of the source files in file order, with their file's type
RECURSIVE AllEntries(_)
AllEntries(f) ==
  IF f > Len(content_files) THEN <<>>
  ELSE [i \in DOMAIN ld.files[content_files[f].filename] |->
          [entry |-> ld.files[content_files[f].filename][i],
           type |-> content_files[f].type]]
       \o AllEntries(f + 1)

NamedEntries == SelectSeq(AllEntries(1), LAMBDA x : EntryName(x.entry) # "")

\* C23: no two catalog items have the same normalised name; for every
\* normalised name of a named source entry exactly one item is kept, the
\* first occurrence in file order; entries with an empty name are skipped.
C23_CatalogDeduplicated ==
  CatalogLoaded =>
    LET its == ld.items
        ents == NamedEntries
    IN  /\ \A i, j \in DOMAIN its : its[i].name = its[j].name => i = j
        /\ {its[i].name : i \in DOMAIN its}
             = {LowerStrip(EntryName(ents[j].entry)) : j \in DOMAIN ents}
        /\ \A i \in DOMAIN its :
             LET first == CHOOSE j \in DOMAIN ents :
                            /\ LowerStrip(EntryName(ents[j].entry)) = its[i].name
                            /\ \A k \in 1..(j - 1) :
                                  LowerStrip(EntryName(ents[k].entry)) # its[i].name
             IN  /\ its[i].original_name = EntryName(ents[first].entry)
                 /\ its[i].type = ents[first].type
        /\ \A i \in DOMAIN its : its[i].original_name # ""
        /\ \A i, j \in DOMAIN its :
             i < j => \E a, b \in DOMAIN ents :
                        /\ a < b
                        /\ LowerStrip(EntryName(ents[a].entry)) = its[i].name
                        /\ LowerStrip(EntryName(ents[b].entry)) = its[j].name

\* "A" in an earlier file and "a " in a later one: one item, the earlier
C23_Witness ==
  /\ CatalogLoaded
  /\ Len(NamedEntries) > Len(ld.items)
  /\ \E i \in DOMAIN ld.items :
        /\ ld.items[i].name = "a" /\ ld.items[i].original_name = "A"
        /\ \E j \in DOMAIN NamedEntries :
              /\ NamedEntries[j].entry.name = "a "
              /\ NamedEntries[j].type # ld.items[i].type

---------------------------------------------------------------------------
(* Properties of build_als_model.                                          *)

SmallerDim == IF am.n_users <= am.n_items THEN am.n_users ELSE am.n_items

\* C25: the number of latent factors is min(n_sessions, n_items) - 1
\* clamped to [5, 32]: always between 5 and 32, equal to
\* min(n_sessions, n_items) - 1 when that lies in [5, 32], 5 below and 32
\* above.
C25_FactorsClamped ==
  am.pc = "trained" =>
    /\ am.n_factors \in 5..32
    /\ SmallerDim - 1 \in 5..32 => am.n_factors = SmallerDim - 1
    /\ SmallerDim - 1 < 5 => am.n_factors = 5
    /\ SmallerDim - 1 > 32 => am.n_factors = 32

\* fewer sessions than 6: the floor applies and k exceeds the smaller side
C25_Witness ==
  /\ am.pc = "trained"
  /\ am.n_users = 1 /\ am.n_items > 33
  /\ am.n_factors = 5

\* more than 33 sessions and items: the cap applies
C25_CapReached ==
  /\ am.pc = "trained"
  /\ SmallerDim > 33
  /\ am.n_factors = 32

MatrixBuilt == am.pc = "matrix"

NamedBy(rows) == {Lower(rows[i].name) : i \in DOMAIN rows} \ {""}

Injective(f) == \A a, b \in DOMAIN f : f[a] = f[b] => a = b

\* the items with an entry in the matrix row of session p
RowItems(p) == {k[2] : k \in {k \in DOMAIN am.interactions : k[1] = p}}

RECURSIVE NameTotal(_, _, _)
NameTotal(rows, n, field) ==
  IF rows = <<>> THEN 0
  ELSE (IF Lower(Head(rows).name) = n THEN Head(rows)[field] ELSE 0)
         + NameTotal(Tail(rows), n, field)

\* C26: every item named by a click row has exactly one click
\* pseudo-session and every item named by an impression row exactly one
\* impression pseudo-session; pseudo-session ids are pairwise distinct and
\* differ from the real session ids; the matrix row of a pseudo-session has
\* an entry for its own item only; every click or impression row with a
\* non-empty name is counted in the entry of its item's pseudo-session.
C26_PseudoSessionsAreSingletons ==
  MatrixBuilt =>
    /\ DOMAIN am.click_sessions = NamedBy(am.clicks)
    /\ DOMAIN am.impression_sessions = NamedBy(am.impressions)
    /\ Injective(am.click_sessions) /\ Injective(am.impression_sessions)
    /\ Range(am.click_sessions) \cap Range(am.impression_sessions) = {}
    /\ (Range(am.click_sessions) \cup Range(am.impression_sessions))
          \cap RealSessions(am) = {}
    /\ Range(am.click_sessions) \cup Range(am.impression_sessions) \subseteq am.sessions
    /\ \A n \in DOMAIN am.click_sessions :
          /\ RowItems(am.click_sessions[n]) = {n}
          /\ am.interactions[<<am.click_sessions[n], n>>]
                = 100 * NameTotal(am.clicks, n, "click_count")
    /\ \A n \in DOMAIN am.impression_sessions :
          /\ RowItems(am.impression_sessions[n]) = {n}
          /\ am.interactions[<<am.impression_sessions[n], n>>]
                = 5 * NameTotal(am.impressions, n, "impression_count")

\* two clicked items, one of them also with an impression row: three
\* pseudo-sessions
C26_Witness ==
  /\ MatrixBuilt
  /\ Cardinality(DOMAIN am.click_sessions) = 2
  /\ \E n \in DOMAIN am.click_sessions :
        /\ n \in DOMAIN am.impression_sessions
        /\ am.interactions[<<am.click_sessions[n], n>>] > 0
  /\ Cardinality(Range(am.click_sessions) \cup Range(am.impression_sessions)) = 3

---------------------------------------------------------------------------
(* Properties of the ranked output.                                        *)

OutputBuilt == out.pc = "built"

NonCold(q) == {i \in DOMAIN q : ~q[i].cold_start}

\* C27: the rankings have exactly one entry per catalog item, are sorted by
\* score in non-increasing order and carry ranks 1..n equal to the list
\* position; observed_items + cold_start_items = total_items; the homepage
\* list is the first (at most 12) non-cold-start entries in rank order.
C27_RankingsSortedAndRanked ==
  OutputBuilt =>
    LET r == out.rankings
        h == out.homepage_items
    IN  /\ Len(r) = Len(out.items)
        /\ \A i \in DOMAIN out.items :
             Cardinality({j \in DOMAIN r : r[j].name = out.items[i].original_name}) = 1
        /\ \A j \in DOMAIN r :
             \E i \in DOMAIN out.items :
               /\ r[j].name = out.items[i].original_name
               /\ r[j].cold_start = out.all_scores[out.items[i].name].cold_start
        /\ \A j \in DOMAIN r : r[j].rank = j
        /\ \A j, k \in DOMAIN r : r[j].rank < r[k].rank => r[j].score >= r[k].score
        /\ out.observed_items + out.cold_start_items = out.total_items
        /\ out.total_items = Len(out.items)
        /\ Len(h) = (IF Cardinality(NonCold(r)) <= 12 THEN Cardinality(NonCold(r)) ELSE 12)
        /\ \A j \in DOMAIN h :
             /\ ~h[j].cold_start
             /\ r[h[j].rank] = h[j]
             /\ Cardinality({k \in NonCold(r) : k < h[j].rank}) = j - 1

\* 13 or more observed items: the homepage list stops at 12; two entries
\* whose scores differ only after the fourth decimal keep catalog order
C27_Witness ==
  /\ OutputBuilt
  /\ out.observed_items > 12 /\ out.cold_start_items > 0
  /\ Len(out.homepage_items) = 12
  /\ \E j \in DOMAIN out.rankings :
        /\ j > 1
        /\ out.rankings[j].score < out.rankings[j - 1].score

---------------------------------------------------------------------------
(* Properties of the narrative carousels.                                  *)

Returned == nc.pc = "returned"

TypesIn(q) == {q[i].type : i \in DOMAIN q}

\* C28: when the input has at most max_count distinct types, the result
\* has at least one item of every type present in the input.
C28_EveryTypeSelected ==
  (Returned /\ Cardinality(TypesIn(nc.items)) <= nc.max_count) =>
     TypesIn(nc.selected) = TypesIn(nc.items)

\* C28, the part that holds: with one item per type, or with max_count at
\* least the number of items, every type is selected
C28_EveryTypeSelectedWhenRoomForAll ==
  (Returned /\ Len(nc.items) <= nc.max_count) =>
     TypesIn(nc.selected) = TypesIn(nc.items)

ResultAsClaimed ==
  /\ Len(nc.selected) =
       (IF nc.max_count <= Len(nc.items) THEN nc.max_count ELSE Len(nc.items))
  /\ \A i \in DOMAIN nc.selected : nc.selected[i] \in {nc.items[j] : j \in DOMAIN nc.items}
  /\ \A i, j \in DOMAIN nc.selected : nc.selected[i] = nc.selected[j] => i = j
  /\ \A i, j \in DOMAIN nc.selected :
       (i < j /\ nc.selected[i].type = nc.selected[j].type)
          => nc.selected[i].id < nc.selected[j].id

\* C30: the round-robin loop terminates for every input list and every
\* max_count >= 0, and what it returns has exactly min(max_count,
\* len(items)) items, each input item at most once, items of one type in
\* input order.
C30_TerminatesWithMinItems ==
  <>(Returned /\ ResultAsClaimed)

\* the result is as claimed whenever the function has returned
C30_ResultAsClaimed ==
  Returned => ResultAsClaimed

\* a call that returns after the loop has dropped an emptied type and has
\* still filled max_count places
C30_Witness ==
  /\ Returned
  /\ nc.max_count > 2 /\ nc.max_count < Len(nc.items)
  /\ Len(nc.selected) = nc.max_count
  /\ \E t \in DOMAIN nc.by_type : nc.by_type[t] = <<>>
  /\ \E t \in DOMAIN nc.by_type : nc.by_type[t] # <<>>

Merged == nc.pc = "merged"

IdsOf(q) == {q[i].id : i \in DOMAIN q}

ManualKeptFirst ==
  /\ Len(nc.final_carousels) >= Len(nc.manual_carousels)
  /\ SubSeq(nc.final_carousels, 1, Len(nc.manual_carousels)) = nc.manual_carousels

GeneratedFiltered ==
  LET m == Len(nc.manual_carousels)
  IN  SubSeq(nc.final_carousels, m + 1, Len(nc.final_carousels))
        = SelectSeq(nc.all_generated, LAMBDA c : c.id \notin IdsOf(nc.manual_carousels))

\* C29: the merged list has no two carousels with the same id: the manual
\* carousels come first in their order, a generated carousel is included
\* only if its id is not a manual id, and generated carousels do not
\* collide with each other.
C29_MergedIdsUnique ==
  Merged =>
    /\ ManualKeptFirst
    /\ GeneratedFiltered
    /\ \A i, j \in DOMAIN nc.final_carousels :
          nc.final_carousels[i].id = nc.final_carousels[j].id => i = j

\* C29, the part that holds: manual carousels first and unchanged, then the
\* generated carousels whose id is not a manual id, in their order
C29_ManualFirstGeneratedFiltered ==
  Merged => ManualKeptFirst /\ GeneratedFiltered

\* two method carousels with one id: a paper without 'title' and a paper
\* whose title is the other's name
C29_MethodIdsCollide ==
  /\ Merged
  /\ \E i, j \in DOMAIN nc.final_carousels :
        /\ i < j
        /\ nc.final_carousels[i].id = nc.final_carousels[j].id
        /\ nc.final_carousels[i].template = "method"

===========================================================================
